---- MODULE Spec2Model ----
(***************************************************************************)
(* Model of the signal / position lifecycle core of mario_trader:          *)
(*   - execution.py : execute, check_exit_conditions, check_pending_orders,*)
(*                    set_pending_order, calculate_lot_size,               *)
(*                    execute_multiple_pairs                               *)
(*   - strategies/monitor.py : monitor_trade                               *)
(*   - utils/mt5_handler.py  : open_trade, close_trade                     *)
(*                                                                         *)
(* Units.  Prices are integers counted in points of the instrument         *)
(* (EURUSD: 0.00001, USDJPY: 0.001).  Lot sizes are integers counted in    *)
(* hundredths of a lot (the usual volume_step).  Time is counted in ticks  *)
(* of 30 minutes; of a recorded time the model keeps the time elapsed      *)
(* since it, which is all the program computes from it, and stops counting *)
(* at one hour.  Confidences are percentages.                              *)
(***************************************************************************)
EXTENDS Integers, Sequences, FiniteSets, TLC

\* ----------------------------------------------------------------- bounds
MaxPositions == 2
MaxOrders == 2
MaxLegs == 2

\* ------------------------------------------------------- program constants
\* timedelta(hours=1) of execute, in ticks of 30 minutes
Hour == 2
\* TRADING_SETTINGS["contingency_plan"]["max_cascade_levels"]
max_cascade_levels == 5
\* symbol_info.trade_stops_level, in points
trade_stops_level == 10
\* symbol_info.volume_min / volume_max / volume_step, in hundredths of a lot
volume_min == 1
volume_max == 20000
volume_step == 1
\* balance of the account at start
StartBalance == 10000

Pairs == {"EURUSD", "USDJPY"}
PairList == <<"EURUSD", "USDJPY">>

\* forex_pair.endswith('JPY')
EndsWithJPY(p) == p = "USDJPY"

\* prices the market can take, in points
Prices == {109950, 110000, 110050, 110100}
\* the price at which the candle patterns of the modelled market complete
PatternPrice == 110000

Abs(x) == IF x < 0 THEN -x ELSE x
Min(a, b) == IF a <= b THEN a ELSE b
Max(a, b) == IF a >= b THEN a ELSE b

\* forex_pair not in last_trade_time
NoTime == -1
\* "no entry" TRADING_SETTINGS[f"{pair}_contingency"]
NoPlan == [type |-> "NONE"]

VARIABLES
    price,            \* price[p]: current bid = ask = last close of p
    balance,          \* account_info.balance
    time_since_last_trade,  \* current_time - last_trade_time[p], or NoTime
    plans,            \* TRADING_SETTINGS[f"{p}_contingency"]
    positions,        \* venue: open positions of p, oldest first
    orders,           \* venue: pending orders of p
    legs,             \* contingency orders the venue accepted for the stored plan of p
    since_entry,      \* time elapsed since the last primary entry of p was filled
    sched,            \* execute_multiple_pairs: pair index and phase
    enabled,          \* the symbols mt5.symbol_select can enable
    last,             \* the last operation and what it returned
    mt,               \* monitor_trade: its position and local variables
    contingency_trades,  \* monitor_trade: the list contingency_trades
    open_tickets,     \* venue: the tickets open for monitor_trade
    call,             \* a function called on its own: its name and arguments
    returned          \* what that call returned

\* the variables of the scheduler and of monitor_trade
svars == <<time_since_last_trade, plans, positions, orders, legs, since_entry,
           sched, enabled, last>>
mvars == <<mt, contingency_trades, open_tickets>>
\* the variables of a function called on its own
fvars == <<call, returned>>
vars == <<price, balance, svars, mvars, fvars>>

\* ------------------------------------------------------------ market data
\* One fetched candle window, reduced to what execute() reads from it: the
\* indicator values of the latest row and the last four candles.
Candle(o, h, l, c) == [open |-> o, high |-> h, low |-> l, close |-> c]

\* three falling candles, then a bullish engulfing candle closing at P
FallingThenUp(P) ==
    << Candle(P + 25, P + 30, P - 50, P - 45),
       Candle(P + 15, P + 20, P - 60, P - 55),
       Candle(P - 20, P + 10, P - 70, P - 60),
       Candle(P - 65, P + 5, P - 75, P) >>

\* three rising candles, then a bearish engulfing candle closing at P
RisingThenDown(P) ==
    << Candle(P - 25, P + 50, P - 30, P + 45),
       Candle(P - 15, P + 60, P - 20, P + 55),
       Candle(P + 20, P + 70, P - 10, P + 60),
       Candle(P + 65, P + 75, P - 5, P) >>

\* three bearish candles of the same range (open above close), then a
\* bullish candle of that range closing at P
BearishRunThenBullish(P) ==
    << Candle(P, P, P - 10, P - 10),
       Candle(P, P, P - 10, P - 10),
       Candle(P, P, P - 10, P - 10),
       Candle(P - 10, P, P - 10, P) >>

\* four candles without range
Flat(P) == << Candle(P, P, P, P), Candle(P, P, P, P),
              Candle(P, P, P, P), Candle(P, P, P, P) >>

\* the indicator row and last candles of one fetched window
Window(s21, s50, s200, r, cs) ==
    [sma_21 |-> s21, sma_50 |-> s50, sma_200 |-> s200, rsi |-> r, candles |-> cs]

\* the windows fetch_data can return while the last close is P: windows
\* failing one of the conditions of execute() and, at PatternPrice, an
\* uptrend pull-back and a rally that turns down
Windows(P) ==
    { Window(P - 50, P - 300, P + 500, 60, FallingThenUp(P)),
      Window(P - 50, P - 55, P - 500, 60, FallingThenUp(P)),
      Window(P - 50, P - 300, P - 500, 60, Flat(P)),
      Window(P - 50, P - 300, P - 500, 40, FallingThenUp(P)) }
    \cup
    (IF P = PatternPrice
     THEN { Window(P - 50, P - 300, P - 500, 60, FallingThenUp(P)),
            Window(P + 50, P + 300, P - 500, 40, RisingThenDown(P)) }
     ELSE {})

\* --------------------------------------------------------- execute: signal
\* min_sma_distance = 0.0010 if not forex_pair.endswith('JPY') else 0.01
min_sma_distance(p) == IF EndsWithJPY(p) THEN 10 ELSE 100

\* "last 3 candles were bearish (lower highs and lower lows)";
\* iloc[-i] is cs[5 - i], iloc[-(i+1)] is cs[4 - i]
bearish_candles(cs) ==
    \A i \in 1..3 : ~ (cs[5 - i].high >= cs[4 - i].high \/ cs[5 - i].low >= cs[4 - i].low)

bullish_engulfing(cs) ==
    /\ cs[4].close > cs[3].open
    /\ cs[4].open < cs[3].close
    /\ cs[4].close - cs[4].open > cs[3].open - cs[3].close

bullish_candles(cs) ==
    \A i \in 1..3 : ~ (cs[5 - i].high <= cs[4 - i].high \/ cs[5 - i].low <= cs[4 - i].low)

bearish_engulfing(cs) ==
    /\ cs[4].close < cs[3].open
    /\ cs[4].open > cs[3].close
    /\ cs[4].open - cs[4].close > cs[3].close - cs[3].open

\* rolling(window=200).mean() of fewer than 200 closes, and the RSI of a
\* series without gains and losses: pandas yields NaN, and every comparison
\* with NaN is False.  Prices are positive and an RSI is not below 0, so -1
\* is free to stand for it.
NaN == -1

\* the signal of execute(): 1 buy, -1 sell, 0 none
ExecuteSignal(w) ==
    IF w.rsi # NaN /\ w.rsi > 50
    THEN (IF bearish_candles(w.candles) /\ bullish_engulfing(w.candles) THEN 1 ELSE 0)
    ELSE IF w.rsi # NaN /\ w.rsi < 50
    THEN (IF bullish_candles(w.candles) /\ bearish_engulfing(w.candles) THEN -1 ELSE 0)
    ELSE 0

\* TRADING_SETTINGS["candles_count"]
candles_count == 200

\* calculate_indicators on a window of n candles whose full-length averages
\* would be those of w (21 and 50 closes are there for n >= 50)
calculate_indicators(n, w) ==
    [w EXCEPT !.sma_200 = IF n < 200 THEN NaN ELSE @]

\* execute() without its returns at lines 70-72, 77-79 and 134-136
ExecuteFilterNone(p, P, w) == ""

\* the filters before the pattern check: "" when the window passes
ExecuteFilter(p, P, w) ==
    IF w.sma_200 # NaN /\ P <= w.sma_200 THEN "below_200_sma"
    ELSE IF Abs(w.sma_21 - w.sma_50) < min_sma_distance(p) THEN "sma_too_close"
    ELSE IF ExecuteSignal(w) = 0 THEN "no_signal"
    ELSE ""

\* ------------------------------------------------------------- risk sizer
\* Lot sizes are computed in thousandths of a lot and rounded to hundredths.
\* 1 / symbol_info.point
PointDen(p) == IF EndsWithJPY(p) THEN 1000 ELSE 100000
\* min_stop_loss_distance = 0.0010, 0.01 for JPY pairs, in points
min_stop_loss_distance(p) == IF EndsWithJPY(p) THEN 10 ELSE 100

\* account_risk_amount / (stop_loss_in_pips * pip_value_per_lot), where
\*   stop_loss_in_pips = distance / pip_multiplier (0.1 on 5- and 3-digit symbols)
\*   pip_value_per_lot = one_pip * 100000 when the account currency (USD) is
\*   the quote currency, (one_pip / current_price) * 100000 otherwise
RawLotMilli(p, d, P, B) ==
    IF ~ EndsWithJPY(p)
    THEN (20000 * B) \div d
    ELSE (B * P) \div (500 * d)

\* account_equity / (current_price * 100) * 0.2
MaxLotByBalanceMilli(p, P, E) == (2 * E * PointDen(p)) \div P

\* Python round(): to the nearest integer, ties to the even one
RoundHalfEven(n, d) ==
    LET q == n \div d
        r == n % d
    IN  IF 2 * r < d THEN q
        ELSE IF 2 * r > d THEN q + 1
        ELSE IF q % 2 = 0 THEN q ELSE q + 1

\* calculate_lot_size, in hundredths of a lot; info is FALSE when account
\* info, symbol info or the tick is unavailable
\* lines 1162-1172, in thousandths of a lot: the raw lot size brought into
\* [volume_min, min(volume_max, max_lot_size_by_balance)]
ClampedLotMilli(p, dist, P, B) ==
    LET d == IF dist < min_stop_loss_distance(p) THEN min_stop_loss_distance(p) ELSE dist
        lot == RawLotMilli(p, d, P, B)
        max_lot_size == Min(volume_max * 10, MaxLotByBalanceMilli(p, P, B))
    IN  Max(Min(lot, max_lot_size), volume_min * 10)

calculate_lot_size(p, dist, P, B, info) ==
    IF ~ info THEN 1
    ELSE RoundHalfEven(ClampedLotMilli(p, dist, P, B), volume_step * 10) * volume_step

\* ------------------------------------------------------------------ venue
\* number of entries the account holds over all symbols
RECURSIVE TotalOver(_, _)
TotalOver(f, ps) ==
    IF ps = << >> THEN 0 ELSE Len(f[Head(ps)]) + TotalOver(f, Tail(ps))
Total(f) == TotalOver(f, PairList)

\* symbol_info.trade_tick_size, in points
trade_tick_size == 1

\* validate_and_adjust_price for forex symbols: <<valid, adjusted price>>
validate_and_adjust_price(x, price_type, bid) ==
    LET adjusted == RoundHalfEven(x, trade_tick_size) * trade_tick_size
    IN  IF price_type \notin {"STOP_LOSS", "TAKE_PROFIT"}
           /\ Abs(adjusted - bid) < trade_stops_level
        THEN <<FALSE, adjusted>>
        ELSE <<TRUE, adjusted>>

\* create_order_request / get_order_type: the request of a pending order.
\* execution.py calls these names without defining or importing them; where
\* they are not provided the call raises NameError and set_pending_order
\* returns None from its except branch, the outcome ok = FALSE below.
create_order_request(order_type, x, lot, sl, tp) ==
    [type |-> order_type, price |-> x, volume |-> lot, sl |-> sl, tp |-> tp]

\* mt5.order_send for a pending order: the venue takes a stop order only on
\* the far side of the market, only while the account has room, and at most
\* MaxLegs of them for one plan; ok is its answer
VenueTakesPending(p, req, ok, n) ==
    /\ ok
    /\ Total(orders) < MaxOrders
    /\ n < MaxLegs
    /\ (req.type = "SELL_STOP" => req.price < price[p])
    /\ (req.type = "BUY_STOP" => req.price > price[p])

\* the return value None
None == [type |-> "None"]

\* set_pending_order: the request it sends, or None when the price is
\* invalid or the venue answers with another retcode than DONE; n is the
\* number of orders the venue has taken for the plan
set_pending_order(p, order_type, x, lot, sl, tp, ok, n) ==
    LET v == validate_and_adjust_price(x, order_type, price[p])
        vsl == validate_and_adjust_price(sl, "STOP_LOSS", price[p])
        vtp == validate_and_adjust_price(tp, "TAKE_PROFIT", price[p])
        req == create_order_request(order_type, v[2], lot, vsl[2], vtp[2])
    IN  IF ~ v[1] THEN None
        ELSE IF ~ VenueTakesPending(p, req, ok, n) THEN None
        ELSE req

\* mt5.order_send for a market order
VenueTakesMarket(p, ok) == ok /\ Total(positions) < MaxPositions

\* ---------------------------------------------------------------- execute
\* GEMINI_SETTINGS["verification"]["required"]
verification_required == FALSE

\* what verify_trade_setup can return: (approved, confidence)
GeminiResults == { [approved |-> TRUE, confidence |-> 100],
                   [approved |-> FALSE, confidence |-> 0] }

\* the same check with timedelta(minutes=30)
CooldownHalfHour(p) ==
    /\ time_since_last_trade[p] # NoTime
    /\ time_since_last_trade[p] < Hour - 1

\* time_since_last_trade < timedelta(hours=1)
CooldownActive(p) ==
    /\ time_since_last_trade[p] # NoTime
    /\ time_since_last_trade[p] < Hour

\* the position a filled market order leaves at the venue
MarketPosition(type, P, lot, tp) ==
    [type |-> type, price_open |-> P, volume |-> lot, sl |-> 0, tp |-> tp,
     comment |-> "Mario Trader"]

\* the leg a placed contingency order adds to the plan's list
Leg(req) == [dir |-> IF req.type = "SELL_STOP" THEN "SELL" ELSE "BUY",
             price |-> req.price, volume |-> req.volume]

\* The part of execute() after the signal: sizing, the market order, the
\* take-profit, the level-1 pending order and the stored plan.
\*   w: window, g: Gemini's answer, info: sizing data available,
\*   fill: the tick's ask (buy) or bid (sell) at which the market order is
\*   done, okT: the venue's answer to the take-profit modification, whose
\*   result execute() does not look at,
\*   okM / okP: the venue's answer to the market order and to the pending
\*   order; the venue accepts the take-profit of the position it just opened
execute_entry(p, w, g, required, info, okM, okP, fill, okT) ==
    LET P == price[p]
        signal == ExecuteSignal(w)
        dist == Abs(P - w.sma_21)
        lot_size == calculate_lot_size(p, dist, P, balance, info)
        type == IF signal = 1 THEN "BUY" ELSE "SELL"
        take_profit_price == IF signal = 1 THEN P + 2 * dist ELSE P - 2 * dist
        pending == IF signal = 1
                   THEN set_pending_order(p, "SELL_STOP", w.sma_21, lot_size * 2,
                                          w.sma_21 + 3 * dist, w.sma_21 - 2 * dist, okP, 0)
                   ELSE set_pending_order(p, "BUY_STOP", w.sma_21, lot_size * 2,
                                          w.sma_21 - 3 * dist, w.sma_21 + 2 * dist, okP, 0)
        \* the fields gemini_approval and gemini_confidence, which nothing
        \* reads, are left out; total_trades = 0 stands for the missing key
        plan == [type |-> type, initial_entry |-> P, initial_lot_size |-> lot_size,
                 sma_21 |-> w.sma_21, take_profit |-> take_profit_price,
                 entry_to_sma_distance |-> dist, total_trades |-> 0]
    IN  IF required /\ ~ g.approved
        THEN /\ last' = [op |-> "execute", pair |-> p, ret |-> "gemini_rejected"]
             /\ UNCHANGED <<plans, positions, orders, legs, since_entry>>
        ELSE IF lot_size <= 0
        THEN /\ last' = [op |-> "execute", pair |-> p, ret |-> "invalid_lot"]
             /\ UNCHANGED <<plans, positions, orders, legs, since_entry>>
        ELSE IF ~ VenueTakesMarket(p, okM)
        THEN /\ last' = [op |-> "execute", pair |-> p, ret |-> "order_rejected"]
             /\ UNCHANGED <<plans, positions, orders, legs, since_entry>>
        ELSE /\ positions' = [positions EXCEPT ![p] =
                    Append(@, MarketPosition(type, fill, lot_size,
                                             IF okT THEN take_profit_price ELSE 0))]
             /\ orders' = [orders EXCEPT ![p] =
                    IF pending = None THEN @ ELSE Append(@, pending)]
             /\ plans' = [plans EXCEPT ![p] = plan]
             /\ legs' = [legs EXCEPT ![p] =
                    IF pending = None THEN << >> ELSE << Leg(pending) >>]
             /\ since_entry' = [since_entry EXCEPT ![p] = 0]
             /\ last' = [op |-> "execute", pair |-> p, ret |-> "opened"]

\* the same with the cooldown stamp of line 139 written before the filters
execute_window_stamp_first(p, w, g, required, info, okM, okP, fill, okT) ==
    /\ time_since_last_trade' = [time_since_last_trade EXCEPT ![p] = 0]
    /\ IF ExecuteFilter(p, price[p], w) # ""
       THEN /\ last' = [op |-> "execute", pair |-> p,
                        ret |-> ExecuteFilter(p, price[p], w)]
            /\ UNCHANGED <<plans, positions, orders, legs, since_entry>>
       ELSE execute_entry(p, w, g, required, info, okM, okP, fill, okT)

\* execute_window with the cooldown recorded for every instrument
execute_window_stamp_all(p, w, g, required, info, okM, okP, fill, okT) ==
    IF ExecuteFilter(p, price[p], w) # ""
    THEN /\ last' = [op |-> "execute", pair |-> p,
                     ret |-> ExecuteFilter(p, price[p], w)]
         /\ UNCHANGED <<time_since_last_trade, plans, positions, orders,
                        legs, since_entry>>
    ELSE /\ time_since_last_trade' = [q \in Pairs |-> 0]
         /\ execute_entry(p, w, g, required, info, okM, okP, fill, okT)

\* lines 58-258 of execute(): the filters on the indicator row w, then the
\* cooldown stamp and the entry
execute_window(p, w, g, required, info, okM, okP, fill, okT) ==
    IF ExecuteFilter(p, price[p], w) # ""
    THEN /\ last' = [op |-> "execute", pair |-> p,
                     ret |-> ExecuteFilter(p, price[p], w)]
         /\ UNCHANGED <<time_since_last_trade, plans, positions, orders,
                        legs, since_entry>>
    ELSE /\ time_since_last_trade' = [time_since_last_trade EXCEPT ![p] = 0]
         /\ execute_entry(p, w, g, required, info, okM, okP, fill, okT)

\* execute(forex_pair); in the scheduler's cycles the market order is done at
\* the latest close and the venue accepts the take-profit
execute(p) ==
    /\ sched.phase = "execute"
    /\ PairList[sched.i] = p
    /\ p \in enabled
    /\ sched' = [i |-> (sched.i % Len(PairList)) + 1, phase |-> "exit"]
    /\ UNCHANGED <<price, balance, enabled, mvars, fvars>>
    /\ IF CooldownActive(p)
       THEN /\ last' = [op |-> "execute", pair |-> p, ret |-> "cooldown"]
            /\ UNCHANGED <<time_since_last_trade, plans, positions, orders, legs,
                           since_entry>>
       ELSE \/ \* fetch_data returned None
               /\ last' = [op |-> "execute", pair |-> p, ret |-> "no_data"]
               /\ UNCHANGED <<time_since_last_trade, plans, positions, orders, legs,
                           since_entry>>
            \/ \E w \in Windows(price[p]), g \in GeminiResults, info \in {TRUE},
                  okM, okP \in BOOLEAN :
                 execute_window(p, calculate_indicators(candles_count, w),
                                g, verification_required, info, okM, okP,
                                price[p], TRUE)

\* -------------------------------------------------- check_exit_conditions
\* GEMINI_SETTINGS["monitoring"] and ["min_confidence"]
monitoring_enabled == TRUE
monitoring_interval == 15
monitoring_required == FALSE
min_confidence == 70

\* highs, lows and RSI of the candles iloc[-1] and iloc[-3] of a window
Tails(P) ==
    { [high_1 |-> h, high_3 |-> P + 20, low_1 |-> l, low_3 |-> P - 20,
       rsi_1 |-> r, rsi_3 |-> 55] :
        h \in {P + 10, P + 30}, l \in {P - 30, P - 10}, r \in {45, 65} }

\* what detect_support_resistance can return around P
LevelSets(P) ==
    { [support |-> {}, resistance |-> {}],
      [support |-> {P - 30, P - 200}, resistance |-> {P + 30, P + 200}],
      [support |-> {P - 80}, resistance |-> {P + 80}] }

\* what GeminiEngine.monitor_trade can return: (should_exit, confidence)
GeminiExits == { [should_exit |-> FALSE, confidence |-> 0],
                 [should_exit |-> TRUE, confidence |-> 90] }

SetMax(S) == CHOOSE x \in S : \A y \in S : y <= x
SetMin(S) == CHOOSE x \in S : \A y \in S : y >= x

check_rsi_divergence(tail, position_type) ==
    IF position_type = "BUY"
    THEN tail.high_1 > tail.high_3 /\ tail.rsi_1 < tail.rsi_3
    ELSE tail.low_1 < tail.low_3 /\ tail.rsi_1 > tail.rsi_3

\* find_nearest_level; 0 stands for None
find_nearest_level(P, levels, direction) ==
    IF direction = "BUY"
    THEN LET below == { x \in levels.support : x < P }
         IN  IF below # {} THEN SetMax(below) ELSE 0
    ELSE LET above == { x \in levels.resistance : x > P }
         IN  IF above # {} THEN SetMin(above) ELSE 0

\* check_exit_conditions: the reason it returns; it returns should_exit =
\* True with every reason but "not_in_profit" and "hold"
check_exit_conditions(p, position, P, tail, levels, gem, required) ==
    LET position_type == position.type
        entry_price == position.price_open
        is_profitable == IF position_type = "BUY" THEN P > entry_price ELSE P < entry_price
        profit == IF position_type = "BUY" THEN P - entry_price ELSE entry_price - P
        nearest == find_nearest_level(P, levels, position_type)
    IN  IF ~ is_profitable THEN "not_in_profit"
        ELSE IF check_rsi_divergence(tail, position_type) THEN "rsi_divergence"
        ELSE IF (levels.support # {} \/ levels.resistance # {})
                /\ nearest # 0 /\ Abs(P - nearest) * 10000 < 5 * PointDen(p)
             THEN "support_resistance"
        ELSE IF monitoring_enabled
                /\ (candles_count % monitoring_interval = 0
                    \/ profit * 10000 > 20 * PointDen(p))
                /\ gem.should_exit
                /\ (required \/ gem.confidence >= min_confidence)
             THEN "gemini"
        ELSE "hold"

\* execute_multiple_pairs, first step for a pair: with open positions and
\* data, check_exit_conditions is called; its result is not used
ExitCheck(p) ==
    /\ sched.phase = "exit"
    /\ PairList[sched.i] = p
    /\ p \in enabled
    /\ sched' = [sched EXCEPT !.phase = "pending"]
    /\ IF positions[p] = << >>
       THEN last' = [op |-> "exit", pair |-> p, ret |-> "no_position"]
       ELSE \/ last' = [op |-> "exit", pair |-> p, ret |-> "no_data"]
            \/ \E tail \in Tails(price[p]), levels \in LevelSets(price[p]),
                  gem \in GeminiExits :
                 last' = [op |-> "exit", pair |-> p,
                          ret |-> check_exit_conditions(p, positions[p][1], price[p],
                                                        tail, levels, gem,
                                                        monitoring_required)]
    /\ UNCHANGED <<price, balance, time_since_last_trade, plans, positions, orders,
                   legs, since_entry, enabled, mvars, fvars>>

\* --------------------------------------------------- check_pending_orders
\* find_support_levels / find_resistance_levels: the levels they can find in
\* the modelled market, nearest first.  execution.py calls these names
\* without defining or importing them; where they are not provided the call
\* raises NameError and check_pending_orders returns False from its except
\* branch, changing nothing: the outcome "no_data" below.
SupportLevels == { << >>, << 109900 >> }
ResistanceLevels == { << >>, << 110150 >> }

\* "the nearest support below current price", 0 when there is none
FirstBelow(levs, P) ==
    IF \E i \in 1..Len(levs) : levs[i] < P
    THEN levs[CHOOSE i \in 1..Len(levs) :
                  levs[i] < P /\ \A j \in 1..(i - 1) : ~ (levs[j] < P)]
    ELSE 0

FirstAbove(levs, P) ==
    IF \E i \in 1..Len(levs) : levs[i] > P
    THEN levs[CHOOSE i \in 1..Len(levs) :
                  levs[i] > P /\ \A j \in 1..(i - 1) : ~ (levs[j] > P)]
    ELSE 0

\* The body of check_pending_orders for an open position with a stored plan:
\*   levs: the levels protecting the position, okP: the venue's answer to
\*   the pending order; the venue accepts a valid stop-loss
manage_position(p, levs, okP) ==
    LET position == positions[p][1]
        info == plans[p]
        P == price[p]
        dist == info.entry_to_sma_distance
        found == IF position.type = "BUY" THEN FirstBelow(levs, P) ELSE FirstAbove(levs, P)
        stop_loss == IF found # 0 THEN found
                     ELSE IF position.type = "BUY" THEN position.price_open - dist
                     ELSE position.price_open + dist
        vsl == validate_and_adjust_price(stop_loss, "STOP_LOSS", P)
        modified == IF vsl[1] THEN [position EXCEPT !.sl = vsl[2]] ELSE position
        initial_entry == info.initial_entry
        lot_size == info.initial_lot_size * 2
        ventry == validate_and_adjust_price(initial_entry, "ENTRY", P)
        result == IF position.type = "BUY"
                  THEN set_pending_order(p, "SELL_STOP", ventry[2], lot_size,
                                         initial_entry + 3 * dist, initial_entry - 2 * dist, okP,
                                         Len(legs[p]))
                  ELSE set_pending_order(p, "BUY_STOP", ventry[2], lot_size,
                                         initial_entry - 3 * dist, initial_entry + 2 * dist, okP,
                                         Len(legs[p]))
        placed == initial_entry # 0 /\ result # None
    IN  /\ positions' = [positions EXCEPT ![p] = << modified >> \o Tail(@)]
        /\ orders' = [orders EXCEPT ![p] = IF placed THEN Append(@, result) ELSE @]
        /\ plans' = [plans EXCEPT ![p].total_trades =
                        IF placed THEN (IF @ = 0 THEN 1 ELSE @) + 1 ELSE @]
        /\ legs' = [legs EXCEPT ![p] = IF placed THEN Append(@, Leg(result)) ELSE @]
        /\ last' = [op |-> "pending", pair |-> p,
                    ret |-> IF placed THEN "placed" ELSE "not_placed"]

\* check_pending_orders(forex_pair)
check_pending_orders(p) ==
    /\ sched.phase = "pending"
    /\ PairList[sched.i] = p
    /\ p \in enabled
    /\ sched' = [sched EXCEPT !.phase = "execute"]
    /\ UNCHANGED <<price, balance, time_since_last_trade, since_entry, enabled, mvars, fvars>>
    /\ IF positions[p] = << >>
       THEN /\ last' = [op |-> "pending", pair |-> p, ret |-> "no_position"]
            /\ UNCHANGED <<plans, positions, orders, legs>>
       ELSE IF plans[p] = NoPlan
       THEN /\ last' = [op |-> "pending", pair |-> p, ret |-> "no_plan"]
            /\ UNCHANGED <<plans, positions, orders, legs>>
       ELSE \/ \* fetch_data returned None, or the except branch was taken
               /\ last' = [op |-> "pending", pair |-> p, ret |-> "no_data"]
               /\ UNCHANGED <<plans, positions, orders, legs>>
            \/ \E levs \in (IF positions[p][1].type = "BUY"
                            THEN SupportLevels ELSE ResistanceLevels),
                  okP \in BOOLEAN :
                 manage_position(p, levs, okP)

\* ------------------------------------------------------------ environment
\* one tick later
Later(t) == IF t = NoTime \/ t >= Hour THEN t ELSE t + 1

\* the clock advances by one tick
Tick ==
    /\ time_since_last_trade' = [p \in Pairs |-> Later(time_since_last_trade[p])]
    /\ since_entry' = [p \in Pairs |-> Later(since_entry[p])]
    /\ last' = [op |-> "tick", pair |-> "", ret |-> ""]
    /\ UNCHANGED <<price, balance, plans, positions, orders, legs, sched, enabled, mvars, fvars>>

\* a position is closed by the venue when its take-profit or stop-loss is hit
HitByVenue(pos, P) ==
    IF pos.type = "BUY"
    THEN (pos.tp # 0 /\ P >= pos.tp) \/ (pos.sl # 0 /\ P <= pos.sl)
    ELSE (pos.tp # 0 /\ P <= pos.tp) \/ (pos.sl # 0 /\ P >= pos.sl)

\* a stop order is triggered when the market reaches its price
Triggered(ord, P) ==
    IF ord.type = "SELL_STOP" THEN P <= ord.price ELSE P >= ord.price

\* the position a triggered pending order becomes
FilledPosition(ord) ==
    [type |-> IF ord.type = "SELL_STOP" THEN "SELL" ELSE "BUY",
     price_open |-> ord.price, volume |-> ord.volume, sl |-> ord.sl, tp |-> ord.tp,
     comment |-> "Contingency"]

RECURSIVE SelectPos(_, _)
\* the positions of ps that the price P leaves open
SelectPos(ps, P) ==
    IF ps = << >> THEN << >>
    ELSE IF HitByVenue(Head(ps), P) THEN SelectPos(Tail(ps), P)
    ELSE << Head(ps) >> \o SelectPos(Tail(ps), P)

RECURSIVE Fill(_, _, _, _)
\* <<positions, orders>> after the orders of os triggered at P are filled,
\* as far as the account has room for positions; the others are cancelled
Fill(ps, os, P, room) ==
    IF os = << >> THEN << ps, << >> >>
    ELSE IF Triggered(Head(os), P) /\ room > 0
         THEN Fill(Append(ps, FilledPosition(Head(os))), Tail(os), P, room - 1)
         ELSE IF Triggered(Head(os), P)
              THEN Fill(ps, Tail(os), P, room)
              ELSE LET r == Fill(ps, Tail(os), P, room)
                   IN  << r[1], << Head(os) >> \o r[2] >>

\* the market of p moves to another price; the venue closes what is hit and
\* fills what is triggered
MarketMove(p) ==
    /\ p \in enabled
    /\ \E P \in Prices \ {price[p]} :
        LET open == SelectPos(positions[p], P)
            room == MaxPositions - (Total(positions) - Len(positions[p]) + Len(open))
            r == Fill(open, orders[p], P, room)
        IN  /\ price' = [price EXCEPT ![p] = P]
            /\ positions' = [positions EXCEPT ![p] = r[1]]
            /\ orders' = [orders EXCEPT ![p] = r[2]]
            /\ last' = [op |-> "market", pair |-> p, ret |-> ""]
            /\ UNCHANGED <<balance, time_since_last_trade, plans, legs, since_entry,
                           sched, enabled, mvars, fvars>>

\* execute_multiple_pairs: a symbol that cannot be enabled is left out of
\* valid_pairs
SkipPair ==
    /\ sched.phase = "exit"
    /\ PairList[sched.i] \notin enabled
    /\ sched' = [i |-> (sched.i % Len(PairList)) + 1, phase |-> "exit"]
    /\ last' = [op |-> "skip", pair |-> PairList[sched.i], ret |-> ""]
    /\ UNCHANGED <<price, balance, time_since_last_trade, plans, positions, orders,
                   legs, since_entry, enabled, mvars, fvars>>

\* the same exception caught only by the handler of the whole cycle (lines
\* 932-935): the cycle is given up and the next one starts with the first pair
PairErrorEndsCycle(p) ==
    /\ sched.phase = "exit"
    /\ PairList[sched.i] = p
    /\ p \in enabled
    /\ positions[p] # << >>
    /\ sched' = [i |-> 1, phase |-> "exit"]
    /\ last' = [op |-> "error", pair |-> p, ret |-> ""]
    /\ UNCHANGED <<price, balance, time_since_last_trade, plans, positions, orders,
                   legs, since_entry, enabled, mvars, fvars>>

\* execute_multiple_pairs, lines 903-930: an exception raised while a pair
\* with open positions is processed (calculate_indicators,
\* detect_support_resistance and check_exit_conditions have no handler of
\* their own) is caught by the try around that pair; check_pending_orders and
\* execute are not reached for it and the for loop takes the next pair
PairError(p) ==
    /\ sched.phase = "exit"
    /\ PairList[sched.i] = p
    /\ p \in enabled
    /\ positions[p] # << >>
    /\ sched' = [i |-> (sched.i % Len(PairList)) + 1, phase |-> "exit"]
    /\ last' = [op |-> "error", pair |-> p, ret |-> ""]
    /\ UNCHANGED <<price, balance, time_since_last_trade, plans, positions, orders,
                   legs, since_entry, enabled, mvars, fvars>>

\* ------------------------------------------------- monitor.monitor_trade
\* most entries of contingency_trades the model follows
MaxTrades == 16
\* "while num_contingency_trades < 10"
contingency_limit == 10
\* "balance_change_percent <= -20"
drawdown_percent == 20
\* the arguments of the monitored call: volume in hundredths of a lot,
\* the ticket of the primary order
mt_volume == 10
order_id == 1
\* the instrument monitor_trade is called for
MonitoredPair == "EURUSD"
\* the balances the account can show, and the latest 21_SMA of a fetch
Balances == {StartBalance, 8000}
LatestSMAs == {109950, 110050}

\* monitor_trade not running
MtIdle == [pc |-> "idle"]

\* monitor_trade after lines 79-91, before the first pass of the main loop
MtStart(type, sl, sma) ==
    [pc |-> "main", order_type |-> type, entry_price |-> price[MonitoredPair],
     stop_loss |-> sl, distance_to_21_sma |-> Abs(price[MonitoredPair] - sma),
     latest_sma |-> sma, initial_balance |-> balance,
     num_contingency_trades |-> 0, divergence_signal |-> 0, event |-> "none"]

check_take_profit(current_price, take_profit, trade_type) ==
    IF trade_type = "buy" THEN current_price < take_profit
    ELSE IF trade_type = "sell" THEN current_price > take_profit
    ELSE FALSE

check_stop_loss(current_price, stop_loss, trade_type) ==
    IF trade_type = "buy" THEN current_price > stop_loss
    ELSE IF trade_type = "sell" THEN current_price < stop_loss
    ELSE FALSE

\* closes and RSI values detect_rsi_divergence reads: iloc[-2] and
\* iloc[-period] of close, iloc[-3] and iloc[-period] of RSI
DivergenceInputs ==
    { [close_2 |-> c, close_p |-> 110000, rsi_3 |-> r, rsi_p |-> 50] :
        c \in {109990, 110010}, r \in {45, 55} }

\* the return values, as the docstring of detect_rsi_divergence names them
bullish_divergence == 1
bearish_divergence == -1

detect_rsi_divergence(d) ==
    IF d.close_2 > d.close_p /\ d.rsi_3 < d.rsi_p THEN bullish_divergence
    ELSE IF d.close_2 < d.close_p /\ d.rsi_3 > d.rsi_p THEN bearish_divergence
    ELSE 0

\* what mt5.order_send can answer to a market order: done, another retcode,
\* or nothing at all
OrderAnswers == {"done", "rejected", "none"}

\* mt5_handler.open_trade: None when order_send returns None, the result
\* otherwise, whatever its retcode; a refused order carries ticket 0
open_trade(answer, ticket) ==
    IF answer = "none" THEN None
    ELSE [type |-> "OrderSendResult", retcode |-> answer,
          order |-> IF answer = "done" THEN ticket ELSE 0]

\* "if response:"
Truthy(response) == response # None

\* the entry appended to contingency_trades
ContingencyTrade(response, trade_type, vol, entry) ==
    [ticket_id |-> response.order, trade_type |-> trade_type, volume |-> vol,
     entry_price |-> entry]

\* the ticket the venue gives the next order
NewTicket(trades) == Len(trades) + 2

\* the tickets open at the venue after the order answered by response
Opened(tickets, response) ==
    IF Truthy(response) /\ response.retcode = "done"
    THEN tickets \cup {response.order} ELSE tickets

\* lines 94-155, one pass of the main monitoring loop
MainLoop ==
    /\ mt.pc = "main"
    /\ UNCHANGED <<price, balance, fvars, svars, contingency_trades>>
    /\ \/ \* fetch_data returned None: the pass ends in the except branch
          /\ mt' = [mt EXCEPT !.event = "error"]
          /\ UNCHANGED open_tickets
       \/ \E sma \in LatestSMAs, d \in DivergenceInputs :
            LET current_price == price[MonitoredPair]
                profit_distance == 2 * mt.distance_to_21_sma
                is_in_profit ==
                    \/ mt.order_type = "buy" /\ current_price > mt.entry_price
                    \/ mt.order_type = "sell" /\ current_price < mt.entry_price
                \* close_trade(order_id) and every recorded ticket
                closed == open_tickets \ ({order_id} \cup
                            { contingency_trades[i].ticket_id :
                                i \in 1..Len(contingency_trades) })
            IN  IF (balance - mt.initial_balance) * 100
                       <= (0 - drawdown_percent) * mt.initial_balance
                THEN /\ mt' = [mt EXCEPT !.pc = "closed", !.latest_sma = sma,
                                         !.event = "kill_switch"]
                     /\ open_tickets' = closed
                ELSE IF \/ mt.order_type = "buy"
                           /\ current_price >= mt.entry_price + profit_distance
                        \/ mt.order_type = "sell"
                           /\ current_price <= mt.entry_price - profit_distance
                THEN /\ mt' = [mt EXCEPT !.pc = "closed", !.latest_sma = sma,
                                         !.event = "profit_target"]
                     /\ open_tickets' = closed
                ELSE IF detect_rsi_divergence(d) # 0 /\ is_in_profit
                THEN /\ mt' = [mt EXCEPT !.pc = "closed", !.latest_sma = sma,
                                         !.divergence_signal =
                                             detect_rsi_divergence(d),
                                         !.event = "rsi_divergence"]
                     /\ open_tickets' = closed
                ELSE IF check_stop_loss(current_price, mt.stop_loss, mt.order_type)
                THEN /\ mt' = [mt EXCEPT !.pc = "setup", !.latest_sma = sma,
                                         !.event = "stop_loss"]
                     /\ UNCHANGED open_tickets
                ELSE /\ mt' = [mt EXCEPT !.latest_sma = sma, !.event = "hold"]
                     /\ UNCHANGED open_tickets

\* lines 165-182 and 208-224: the first contingency order, volume * 2, sent
\* as a market order against the primary
ContingencySetup ==
    /\ mt.pc = "setup"
    /\ UNCHANGED <<price, balance, fvars, svars>>
    /\ \E answer \in OrderAnswers :
        LET response == open_trade(answer, NewTicket(contingency_trades))
            side == IF mt.order_type = "buy" THEN "sell" ELSE "buy"
        IN  IF Truthy(response)
            THEN /\ contingency_trades' =
                        Append(contingency_trades,
                               ContingencyTrade(response, side, mt_volume * 2, mt.latest_sma))
                 /\ open_tickets' = Opened(open_tickets, response)
                 /\ mt' = [mt EXCEPT !.pc = "wait", !.num_contingency_trades = @ + 1,
                                     !.event = "first_order"]
            ELSE /\ mt' = [mt EXCEPT !.pc = "cascade", !.event = "no_order"]
                 /\ UNCHANGED <<contingency_trades, open_tickets>>

\* lines 190-205 and 232-247, one pass of the wait loop: once the price is
\* at the 21 SMA the second order, volume * 3, in the primary's direction
WaitLoop ==
    /\ mt.pc = "wait"
    /\ UNCHANGED <<price, balance, fvars, svars>>
    /\ LET current_price == price[MonitoredPair]
           reached == IF mt.order_type = "buy"
                      THEN current_price <= mt.latest_sma
                      ELSE current_price >= mt.latest_sma
       IN  IF ~ reached
           THEN /\ mt' = [mt EXCEPT !.event = "waiting"]
                /\ UNCHANGED <<contingency_trades, open_tickets>>
           ELSE \E answer \in OrderAnswers :
                LET response == open_trade(answer, NewTicket(contingency_trades))
                IN  IF Truthy(response)
                    THEN /\ contingency_trades' =
                                Append(contingency_trades,
                                       ContingencyTrade(response, mt.order_type,
                                                        mt_volume * 3, mt.entry_price))
                         /\ open_tickets' = Opened(open_tickets, response)
                         /\ mt' = [mt EXCEPT !.pc = "cascade",
                                             !.num_contingency_trades = @ + 1,
                                             !.event = "second_order"]
                    ELSE /\ mt' = [mt EXCEPT !.pc = "cascade", !.event = "no_order"]
                         /\ UNCHANGED <<contingency_trades, open_tickets>>

RECURSIVE ContingencyPass(_, _, _, _, _, _)
\* lines 255-288, "for i, trade in enumerate(contingency_trades)": the list,
\* the counter and the open tickets after the pass from index i on; every
\* order of the pass gets the same answer, and the pass is followed up to
\* MaxTrades entries
ContingencyPass(trades, tickets, num, i, current_price, answer) ==
    IF i > Len(trades) \/ Len(trades) >= MaxTrades
    THEN [trades |-> trades, tickets |-> tickets, num |-> num]
    ELSE LET trade == trades[i]
             side == IF trade.trade_type = "buy" /\ current_price >= trade.entry_price
                     THEN "sell"
                     ELSE IF trade.trade_type = "sell" /\ current_price <= trade.entry_price
                     THEN "buy"
                     ELSE "none"
             new_volume == mt_volume * (num + 1)
             response == open_trade(answer, NewTicket(trades))
         IN  IF side # "none" /\ Truthy(response)
             THEN ContingencyPass(
                      Append(trades, ContingencyTrade(response, side, new_volume,
                                                      mt.latest_sma)),
                      Opened(tickets, response), num + 1, i + 1, current_price, answer)
             ELSE ContingencyPass(trades, tickets, num, i + 1, current_price, answer)

\* lines 250-298, one pass of "while num_contingency_trades < 10"
ContingencyLoop ==
    /\ mt.pc = "cascade"
    /\ UNCHANGED <<price, balance, fvars, svars>>
    /\ IF mt.num_contingency_trades < contingency_limit
       THEN \E answer \in OrderAnswers :
              LET r == ContingencyPass(contingency_trades, open_tickets,
                                       mt.num_contingency_trades, 1,
                                       price[MonitoredPair], answer)
              IN  /\ contingency_trades' = r.trades
                  /\ open_tickets' = r.tickets
                  /\ mt' = [mt EXCEPT !.num_contingency_trades = r.num,
                                      !.event = "pass"]
       ELSE /\ mt' = [mt EXCEPT !.pc = "completed", !.event = "completed"]
            /\ UNCHANGED <<contingency_trades, open_tickets>>

\* the market moves while monitor_trade runs
MonitorMarketMove ==
    /\ mt.pc \notin {"idle", "closed", "completed"}
    /\ \E P \in Prices \ {price[MonitoredPair]} :
          price' = [price EXCEPT ![MonitoredPair] = P]
    /\ UNCHANGED <<balance, svars, mvars, fvars>>

\* the balance of the account changes while monitor_trade runs
BalanceChange ==
    /\ mt.pc \notin {"idle", "closed", "completed"}
    /\ \E B \in Balances \ {balance} : balance' = B
    /\ UNCHANGED <<price, svars, mvars, fvars>>


\* -------------------------------------------- functions called on their own
\* no call, nothing returned
NoCall == [fn |-> "none"]

\* the scheduler before its first cycle and monitor_trade not running
Idle ==
    /\ price = [p \in Pairs |-> 110000]
    /\ balance = StartBalance
    /\ time_since_last_trade = [p \in Pairs |-> NoTime]
    /\ plans = [p \in Pairs |-> NoPlan]
    /\ positions = [p \in Pairs |-> << >>]
    /\ orders = [p \in Pairs |-> << >>]
    /\ legs = [p \in Pairs |-> << >>]
    /\ since_entry = [p \in Pairs |-> NoTime]
    /\ sched = [i |-> 1, phase |-> "exit"]
    /\ enabled = {"EURUSD"}
    /\ last = [op |-> "init", pair |-> "", ret |-> ""]
    /\ mt = MtIdle
    /\ contingency_trades = << >>
    /\ open_tickets = {}

\* what the request of monitor_trade can come to: Gemini switched off, the
\* API call raising, an answer that is no JSON, and a parsed answer with its
\* "should_exit" and "confidence" fields (in percent)
MonitorOutcomes ==
    { [kind |-> k, should_exit |-> FALSE, confidence |-> 0] :
        k \in {"disabled", "api_error", "unparseable"} }
    \cup
    { [kind |-> "parsed", should_exit |-> x, confidence |-> c] :
        x \in BOOLEAN, c \in {50, min_confidence, 90} }

\* the same without the parser's confidence check
monitor_trade_unfiltered(o) ==
    IF o.kind # "parsed" THEN [should_exit |-> FALSE, confidence |-> 0]
    ELSE [should_exit |-> o.should_exit, confidence |-> o.confidence]

\* gemini_engine.monitor_trade with _parse_monitoring_response:
\* (should_exit, confidence)
monitor_trade(o) ==
    IF o.kind # "parsed" THEN [should_exit |-> FALSE, confidence |-> 0]
    ELSE IF o.should_exit /\ o.confidence < min_confidence
    THEN [should_exit |-> FALSE, confidence |-> o.confidence]
    ELSE [should_exit |-> o.should_exit, confidence |-> o.confidence]

\* calls of check_exit_conditions for EURUSD: the first open position, the
\* latest close, the candles and RSI values, the levels, what became of the
\* Gemini request and the "required" setting of GEMINI_SETTINGS["monitoring"]
ExitCalls ==
    { [fn |-> "check_exit_conditions", position |-> [type |-> t, price_open |-> e],
       current_price |-> 110000, tail |-> tl, levels |-> lv,
       outcome |-> o, gem |-> monitor_trade(o), required |-> req] :
        t \in {"BUY", "SELL"}, e \in {109700, 109950, 110050, 110300},
        tl \in Tails(110000), lv \in LevelSets(110000), o \in MonitorOutcomes,
        req \in BOOLEAN }

\* check_exit_conditions(forex_pair, dfs, open_positions, sr_levels) returns
CheckExit ==
    /\ call.fn = "check_exit_conditions"
    /\ returned = NoCall
    /\ returned' = [fn |-> call.fn,
                    reason |-> check_exit_conditions("EURUSD", call.position,
                                 call.current_price, call.tail, call.levels, call.gem,
                                 call.required)]
    /\ UNCHANGED <<price, balance, svars, mvars, call>>

\* calls of calculate_lot_size: the pair, the distance to the 21-SMA, the
\* price, the balance (equal to the equity: no open position), and whether
\* account info, symbol info and tick are there
SizerBalances == {50, 500, 3000, 8000, 9999, StartBalance}
SizerDistances == {0, 50, 100, 200}

SizerCalls ==
    { [fn |-> "calculate_lot_size", pair |-> p, dist |-> d, current_price |-> P,
       account_balance |-> B, info |-> info] :
        p \in Pairs, d \in SizerDistances, P \in Prices, B \in SizerBalances,
        info \in BOOLEAN }

\* calculate_lot_size(forex_pair, stop_loss_distance_points) returns
SizeLot ==
    /\ call.fn = "calculate_lot_size"
    /\ returned = NoCall
    /\ returned' = [fn |-> call.fn,
                    lot_size |-> calculate_lot_size(call.pair, call.dist,
                                     call.current_price, call.account_balance,
                                     call.info)]
    /\ UNCHANGED <<price, balance, svars, mvars, call>>

\* ---------------------------------------------- technical.calculate_rsi
\* most closes of a series given to calculate_rsi
MaxCloses == 5

\* A float that is a ratio of integers, +inf, -inf or NaN.  n / d with d > 0
\* for kind "num".
Frac(n, d) == [kind |-> "num", n |-> n, d |-> d]
PosInf == [kind |-> "inf", n |-> 1, d |-> 0]
NegInf == [kind |-> "neginf", n |-> -1, d |-> 0]
NaNf == [kind |-> "nan", n |-> 0, d |-> 0]

\* a / b for non-negative a and b: x / 0 is inf, 0 / 0 is NaN
FDiv(a, b) ==
    IF b.n = 0 THEN (IF a.n = 0 THEN NaNf ELSE PosInf)
    ELSE Frac(a.n * b.d, a.d * b.n)

\* 1 + x for x >= 0
OnePlus(x) == IF x.kind = "num" THEN Frac(x.d + x.n, x.d) ELSE x

\* 100 / x for x >= 0
HundredOver(x) ==
    IF x.kind = "nan" THEN NaNf
    ELSE IF x.kind = "inf" THEN Frac(0, 1)
    ELSE IF x.n = 0 THEN PosInf
    ELSE Frac(100 * x.d, x.n)

\* 100 - x
HundredMinus(x) ==
    IF x.kind = "nan" THEN NaNf
    ELSE IF x.kind = "inf" THEN NegInf
    ELSE Frac(100 * x.d - x.n, x.d)

\* delta = close.diff(); gain = delta.where(delta > 0, 0).fillna(0),
\* loss = (-delta.where(delta < 0, 0)).fillna(0); the first delta is NaN
rsi_gain(close, i) ==
    IF i > 1 /\ close[i] - close[i - 1] > 0 THEN close[i] - close[i - 1] ELSE 0

rsi_loss(close, i) ==
    IF i > 1 /\ close[i] - close[i - 1] < 0 THEN close[i - 1] - close[i] ELSE 0

RECURSIVE SumGain(_, _, _)
SumGain(close, lo, hi) ==
    IF lo > hi THEN 0 ELSE rsi_gain(close, hi) + SumGain(close, lo, hi - 1)

RECURSIVE SumLoss(_, _, _)
SumLoss(close, lo, hi) ==
    IF lo > hi THEN 0 ELSE rsi_loss(close, hi) + SumLoss(close, lo, hi - 1)

\* rolling(window=period, min_periods=1).mean() at row i
avg_gain(close, period, i) ==
    LET lo == Max(1, i - period + 1) IN Frac(SumGain(close, lo, i), i - lo + 1)

avg_loss(close, period, i) ==
    LET lo == Max(1, i - period + 1) IN Frac(SumLoss(close, lo, i), i - lo + 1)

\* the same with rsi = 100 - (100 / rs)
calculate_rsi_without_one(close, period) ==
    [i \in 1..Len(close) |->
        LET rs == FDiv(avg_gain(close, period, i), avg_loss(close, period, i))
        IN  HundredMinus(HundredOver(rs))]

\* calculate_rsi(df, period): rs = avg_gain / avg_loss,
\* rsi = 100 - (100 / (1 + rs)), one value per row
calculate_rsi(close, period) ==
    [i \in 1..Len(close) |->
        LET rs == FDiv(avg_gain(close, period, i), avg_loss(close, period, i))
        IN  HundredMinus(HundredOver(OnePlus(rs)))]

\* close series of 1 to MaxCloses candles
CloseSeries == UNION { [1..n -> {99, 100, 101}] : n \in 1..MaxCloses }

\* the default period and a short one, for which the window slides
RsiCalls ==
    { [fn |-> "calculate_rsi", close |-> c, period |-> k] :
        c \in CloseSeries, k \in {2, 14} }

\* calculate_rsi(df, period) returns
ComputeRsi ==
    /\ call.fn = "calculate_rsi"
    /\ returned = NoCall
    /\ returned' = [fn |-> call.fn, rsi |-> calculate_rsi(call.close, call.period)]
    /\ UNCHANGED <<price, balance, svars, mvars, call>>

\* ---------------------------------------- sma_crossover_strategy, signal
\* most candles of a window given to check_consecutive_candles
MaxCandles == 5

\* np.sign
Sign(x) == IF x > 0 THEN 1 ELSE IF x < 0 THEN -1 ELSE 0

\* df['direction'] = np.sign(df['close'] - df['open']), oldest candle first
Directions(df) == [i \in 1..Len(df) |-> Sign(df[i].close - df[i].open)]

\* the same with "for i in range(2, count+1)": one candle less is looked at
check_consecutive_candles_short(df, direction, count) ==
    LET dir == Directions(df)
        n == Len(df)
    IN  IF n < count + 1 THEN FALSE
        ELSE IF direction = -1 /\ dir[n] = 1
        THEN \A i \in 2..count : ~ (i > n \/ dir[n + 1 - i] # -1)
        ELSE IF direction = 1 /\ dir[n] = -1
        THEN \A i \in 2..count : ~ (i > n \/ dir[n + 1 - i] # 1)
        ELSE FALSE

\* check_consecutive_candles(df, direction, count); iloc[-i] is df[n + 1 - i]
check_consecutive_candles(df, direction, count) ==
    LET dir == Directions(df)
        n == Len(df)
    IN  IF n < count + 1 THEN FALSE
        ELSE IF direction = -1 /\ dir[n] = 1
        THEN \A i \in 2..(count + 1) : ~ (i > n \/ dir[n + 1 - i] # -1)
        ELSE IF direction = 1 /\ dir[n] = -1
        THEN \A i \in 2..(count + 1) : ~ (i > n \/ dir[n + 1 - i] # 1)
        ELSE FALSE

\* candles opening at 100 and closing below, at or above it
PatternCandles == { [open |-> 100, close |-> c] : c \in {99, 100, 101} }

\* windows of up to MaxCandles candles
PatternWindows ==
    UNION { [1..n -> PatternCandles] : n \in 0..MaxCandles }

PatternCalls ==
    { [fn |-> "check_consecutive_candles", df |-> df, direction |-> d, count |-> c] :
        df \in PatternWindows, d \in {-1, 1}, c \in {2, 3} }

\* check_consecutive_candles(df, direction, count) returns
CheckPattern ==
    /\ call.fn = "check_consecutive_candles"
    /\ returned = NoCall
    /\ returned' = [fn |-> call.fn,
                    result |-> check_consecutive_candles(call.df, call.direction,
                                                         call.count)]
    /\ UNCHANGED <<price, balance, svars, mvars, call>>

\* abs(latest['21_SMA'] - latest['50_SMA']) > 0.0001, in points
signal_sma_separation == 10

\* x > y and x < y of two floats, false when one of them is NaN
Gt(x, y) == x # NaN /\ y # NaN /\ x > y
Lt(x, y) == x # NaN /\ y # NaN /\ x < y

\* a window after calculate_indicators as the two generators read it: its
\* last rows (open, high, low, close, 200_SMA, 21_SMA), oldest first, and
\* the 50_SMA and RSI of the latest row
SignalRow(c, s200, s21) ==
    [open |-> c.open, high |-> c.high, low |-> c.low, close |-> c.close,
     sma_200 |-> s200, sma_21 |-> s21]

SignalWindow(cs, s200, s21, s50, r) ==
    [rows |-> [i \in 1..Len(cs) |-> SignalRow(cs[i], s200, s21)],
     sma_50 |-> s50, rsi |-> r]

\* the row iloc[-i]
Iloc(df, i) == df.rows[Len(df.rows) + 1 - i]

\* the same with the stop of a buy put above the price
generate_signal_stop_above(df) ==
    LET latest == Iloc(df, 1)
        current_market_price == latest.close
        dir == Directions(df.rows)
        n == Len(df.rows)
        separated == Abs(latest.sma_21 - df.sma_50) > signal_sma_separation
        touched_21_sma == /\ Iloc(df, 2).low <= Iloc(df, 2).sma_21
                          /\ Iloc(df, 2).sma_21 <= Iloc(df, 2).high
        stop_loss_distance == Abs(latest.sma_21 - current_market_price)
        none == [signal |-> 0, stop_loss |-> 0, price |-> current_market_price]
    IN  IF /\ Gt(latest.close, latest.sma_200) /\ separated
           /\ dir[n - 3] = -1 /\ dir[n - 2] = -1 /\ dir[n - 1] = -1
           /\ dir[n] = 1 /\ touched_21_sma /\ Gt(df.rsi, 50)
        THEN [signal |-> 1, stop_loss |-> current_market_price + stop_loss_distance,
              price |-> current_market_price]
        ELSE IF /\ Lt(latest.close, latest.sma_200) /\ separated
                /\ dir[n - 3] = 1 /\ dir[n - 2] = 1 /\ dir[n - 1] = 1
                /\ dir[n] = -1 /\ touched_21_sma /\ Lt(df.rsi, 50)
        THEN [signal |-> -1, stop_loss |-> current_market_price + stop_loss_distance,
              price |-> current_market_price]
        ELSE none

\* signal.generate_signal(df, currency_pair): (signal, stop_loss, price)
generate_signal(df) ==
    LET latest == Iloc(df, 1)
        current_market_price == latest.close
        dir == Directions(df.rows)
        n == Len(df.rows)
        separated == Abs(latest.sma_21 - df.sma_50) > signal_sma_separation
        touched_21_sma == /\ Iloc(df, 2).low <= Iloc(df, 2).sma_21
                          /\ Iloc(df, 2).sma_21 <= Iloc(df, 2).high
        stop_loss_distance == Abs(latest.sma_21 - current_market_price)
        none == [signal |-> 0, stop_loss |-> 0, price |-> current_market_price]
    IN  IF /\ Gt(latest.close, latest.sma_200) /\ separated
           /\ dir[n - 3] = -1 /\ dir[n - 2] = -1 /\ dir[n - 1] = -1
           /\ dir[n] = 1 /\ touched_21_sma /\ Gt(df.rsi, 50)
        THEN [signal |-> 1, stop_loss |-> current_market_price - stop_loss_distance,
              price |-> current_market_price]
        ELSE IF /\ Lt(latest.close, latest.sma_200) /\ separated
                /\ dir[n - 3] = 1 /\ dir[n - 2] = 1 /\ dir[n - 1] = 1
                /\ dir[n] = -1 /\ touched_21_sma /\ Lt(df.rsi, 50)
        THEN [signal |-> -1, stop_loss |-> current_market_price + stop_loss_distance,
              price |-> current_market_price]
        ELSE none

\* check_price_crossed_200sma_recently(df, lookback=10): the close of two
\* neighbouring rows on different sides of the 200 SMA
check_price_crossed_200sma_recently(df) ==
    \E i \in 1..(Min(10, Len(df.rows)) - 1) :
        LET prev_candle == Iloc(df, i + 1)
            curr_candle == Iloc(df, i)
        IN  \/ /\ Lt(prev_candle.close, prev_candle.sma_200)
               /\ Gt(curr_candle.close, curr_candle.sma_200)
            \/ /\ Gt(prev_candle.close, prev_candle.sma_200)
               /\ Lt(curr_candle.close, curr_candle.sma_200)

\* the same with debug_mode forcing a signal on the 200 SMA condition alone
generate_sma_crossover_signal_forced(df, debug_mode) ==
    LET latest == Iloc(df, 1)
        current_market_price == latest.close
        sufficient_separation ==
            \/ Abs(latest.sma_21 - df.sma_50) > signal_sma_separation
            \/ check_price_crossed_200sma_recently(df)
        price_above_200sma == Gt(latest.close, latest.sma_200)
        stop_loss_distance == Abs(latest.sma_21 - current_market_price)
        buy == [signal |-> 1, stop_loss |-> current_market_price - stop_loss_distance,
                price |-> current_market_price]
        sell == [signal |-> -1, stop_loss |-> current_market_price + stop_loss_distance,
                 price |-> current_market_price]
    IN  IF debug_mode /\ price_above_200sma THEN buy
        ELSE IF price_above_200sma /\ sufficient_separation
                /\ check_consecutive_candles(df.rows, -1, 3) /\ Gt(df.rsi, 50) THEN buy
        ELSE IF price_above_200sma /\ sufficient_separation
                /\ check_consecutive_candles(df.rows, 1, 3) /\ Lt(df.rsi, 50) THEN sell
        ELSE [signal |-> 0, stop_loss |-> 0, price |-> current_market_price]

\* sma_crossover_strategy.generate_sma_crossover_signal(df, currency_pair,
\* debug_mode): (signal, stop_loss, price)
generate_sma_crossover_signal(df, debug_mode) ==
    LET latest == Iloc(df, 1)
        current_market_price == latest.close
        recently_crossed_200sma == check_price_crossed_200sma_recently(df)
        sufficient_separation ==
            \/ Abs(latest.sma_21 - df.sma_50) > signal_sma_separation
            \/ recently_crossed_200sma
        buy_pattern == check_consecutive_candles(df.rows, -1, 3)
        sell_pattern == check_consecutive_candles(df.rows, 1, 3)
        price_above_200sma == Gt(latest.close, latest.sma_200)
        rsi_above_50 == Gt(df.rsi, 50)
        rsi_below_50 == Lt(df.rsi, 50)
        stop_loss_distance == Abs(latest.sma_21 - current_market_price)
        buy == [signal |-> 1, stop_loss |-> current_market_price - stop_loss_distance,
                price |-> current_market_price]
        sell == [signal |-> -1, stop_loss |-> current_market_price + stop_loss_distance,
                 price |-> current_market_price]
    IN  IF debug_mode /\ price_above_200sma /\ rsi_above_50 THEN buy
        ELSE IF price_above_200sma /\ sufficient_separation /\ buy_pattern
                /\ rsi_above_50 THEN buy
        ELSE IF debug_mode /\ price_above_200sma /\ rsi_below_50 THEN sell
        ELSE IF price_above_200sma /\ sufficient_separation /\ sell_pattern
                /\ rsi_below_50 THEN sell
        ELSE [signal |-> 0, stop_loss |-> 0, price |-> current_market_price]

\* the windows given to the generators: the last four candles closing at
\* PatternPrice, a 200 SMA far below, just below (crossed by the pull-back),
\* far above or not there yet, a 21 SMA below, at or above the price, a
\* 50 SMA near it or far from it, and an RSI below, at or above 50 or NaN
SignalWindows ==
    { SignalWindow(cs, s200, s21, s50, r) :
        cs \in { FallingThenUp(PatternPrice), RisingThenDown(PatternPrice),
                 BearishRunThenBullish(PatternPrice), Flat(PatternPrice) },
        s200 \in { PatternPrice - 500, PatternPrice - 50, PatternPrice + 500, NaN },
        s21 \in { PatternPrice - 50, PatternPrice, PatternPrice + 50 },
        s50 \in { PatternPrice - 55, PatternPrice - 300, PatternPrice + 300 },
        r \in { 40, 50, 60, NaN } }

SignalCalls ==
    { [fn |-> "generate_signal", df |-> df, debug_mode |-> FALSE] :
        df \in SignalWindows }
    \cup
    { [fn |-> "generate_sma_crossover_signal", df |-> df, debug_mode |-> d] :
        df \in SignalWindows, d \in BOOLEAN }

\* generate_signal(df, currency_pair) returns
GenerateSignal ==
    /\ call.fn = "generate_signal"
    /\ returned = NoCall
    /\ returned' = [fn |-> call.fn, result |-> generate_signal(call.df)]
    /\ UNCHANGED <<price, balance, svars, mvars, call>>

\* generate_sma_crossover_signal(df, currency_pair, debug_mode) returns
GenerateSmaCrossoverSignal ==
    /\ call.fn = "generate_sma_crossover_signal"
    /\ returned = NoCall
    /\ returned' = [fn |-> call.fn,
                    result |-> generate_sma_crossover_signal(call.df, call.debug_mode)]
    /\ UNCHANGED <<price, balance, svars, mvars, call>>

\* numbers of candles fetch_data can return: copy_rates_from_pos gives what
\* history the venue has, up to candles_count
CandleCounts == {60, 199, candles_count}

\* what the request of verify_trade_setup can come to: Gemini switched off or
\* without key, the API call raising, an answer that is no JSON, and a parsed
\* answer with its "approved" and "confidence" fields (in percent)
GeminiOutcomes ==
    { [kind |-> k, approved |-> FALSE, confidence |-> 0] :
        k \in {"disabled", "api_error", "unparseable"} }
    \cup
    { [kind |-> "parsed", approved |-> a, confidence |-> c] :
        a \in BOOLEAN, c \in {50, 90} }

\* the same with a raising API call counted as a rejection
verify_trade_setup_error_rejects(o) ==
    IF o.kind = "disabled" THEN [approved |-> TRUE, confidence |-> 100]
    ELSE IF o.kind \in {"api_error", "unparseable"}
    THEN [approved |-> FALSE, confidence |-> 0]
    ELSE IF o.approved /\ o.confidence < min_confidence
    THEN [approved |-> FALSE, confidence |-> o.confidence]
    ELSE [approved |-> o.approved, confidence |-> o.confidence]

\* gemini_engine.verify_trade_setup with _parse_verification_response:
\* (approved, confidence)
\* verify_trade_setup without the confidence threshold of the parser
verify_trade_setup_unthresholded(o) ==
    IF o.kind = "disabled" THEN [approved |-> TRUE, confidence |-> 100]
    ELSE IF o.kind = "api_error" THEN [approved |-> TRUE, confidence |-> 0]
    ELSE IF o.kind = "unparseable" THEN [approved |-> FALSE, confidence |-> 0]
    ELSE [approved |-> o.approved, confidence |-> o.confidence]

verify_trade_setup(o) ==
    IF o.kind = "disabled" THEN [approved |-> TRUE, confidence |-> 100]
    ELSE IF o.kind = "api_error" THEN [approved |-> TRUE, confidence |-> 0]
    ELSE IF o.kind = "unparseable" THEN [approved |-> FALSE, confidence |-> 0]
    ELSE IF o.approved /\ o.confidence < min_confidence
    THEN [approved |-> FALSE, confidence |-> o.confidence]
    ELSE [approved |-> o.approved, confidence |-> o.confidence]

\* the ask or bid of symbol_info_tick when the market order is sent, the
\* latest close of the fetched candles being P
TickPrices(P) == {P - 20, P, P + 20}

\* calls of execute("EURUSD") before the first trade: the fetched window, its
\* length, what became of the Gemini request, the "required" setting of
\* GEMINI_SETTINGS["verification"], whether the sizer gets its account,
\* symbol and tick data, the venue's answers to the two orders, the tick
\* price of the deal and the venue's answer to the take-profit modification
\* latest['RSI'] as the number execute() compares with 50
LatestRsi(close) ==
    LET v == calculate_rsi(close, 14)[Len(close)]
    IN  IF v.kind = "nan" THEN NaN ELSE v.n \div v.d

\* the indicator row and last candles of a window in which every price is P:
\* each rolling mean is P, the RSI is that of a series without change
FlatWindow(P) ==
    Window(P, P, P, LatestRsi([i \in 1..MaxCloses |-> P]), Flat(P))

EntryWindows ==
    Windows(PatternPrice)
    \cup { Window(PatternPrice - 50, PatternPrice - 300, PatternPrice - 500, 60,
                  BearishRunThenBullish(PatternPrice)),
           FlatWindow(PatternPrice) }

EntryCalls ==
    { [fn |-> "execute", pair |-> "EURUSD", count |-> n, window |-> w,
       outcome |-> o, gemini |-> verify_trade_setup(o), required |-> req,
       info |-> info, okM |-> okM, okP |-> okP, fill |-> f, okT |-> okT] :
        n \in CandleCounts, w \in EntryWindows, o \in GeminiOutcomes,
        req \in BOOLEAN, info \in BOOLEAN, okM \in BOOLEAN, okP \in BOOLEAN,
        f \in TickPrices(PatternPrice), okT \in BOOLEAN }

\* execute(forex_pair) runs on the fetched window and returns
ExecuteCall ==
    /\ call.fn = "execute"
    /\ returned = NoCall
    /\ execute_window(call.pair, calculate_indicators(call.count, call.window),
                      call.gemini, call.required, call.info, call.okM, call.okP,
                      call.fill, call.okT)
    /\ returned' = [fn |-> call.fn, reason |-> last'.ret]
    /\ UNCHANGED <<price, balance, sched, enabled, mvars, call>>

\* ------------------------------------------- execute, one venue call a step
\* execute() run statement by statement on the window of the call, so that a
\* KeyboardInterrupt can arrive between two of its calls.  "except Exception"
\* of execute() does not catch it: it ends the loop of start_trading or
\* execute_multiple_pairs, and nothing is undone.  sched.phase is the place
\* reached in execute().
CallWindow == calculate_indicators(call.count, call.window)

\* execute() returns r
ExecReturn(r) ==
    /\ sched' = [sched EXCEPT !.phase = "returned"]
    /\ last' = [op |-> "execute", pair |-> call.pair, ret |-> r]

ExecAt(phase) == call.fn = "execute" /\ sched.phase = phase

\* the loop reaches execute(): without an open position the exit check and
\* check_pending_orders before it change nothing, and without an entry in
\* last_trade_time the cooldown check of lines 44-50 lets the call pass
ExecEnter ==
    /\ ExecAt("exit")
    /\ positions[call.pair] = << >>
    /\ ~ CooldownActive(call.pair)
    /\ sched' = [sched EXCEPT !.phase = "execute"]
    /\ UNCHANGED <<price, balance, time_since_last_trade, plans, positions, orders,
                   legs, since_entry, enabled, last, mvars, fvars>>

\* lines 58-139: the filters, then last_trade_time[forex_pair] = current_time
ExecStamp ==
    /\ ExecAt("execute")
    /\ IF ExecuteFilter(call.pair, price[call.pair], CallWindow) # ""
       THEN /\ ExecReturn(ExecuteFilter(call.pair, price[call.pair], CallWindow))
            /\ UNCHANGED time_since_last_trade
       ELSE /\ time_since_last_trade' =
                   [time_since_last_trade EXCEPT ![call.pair] = 0]
            /\ sched' = [sched EXCEPT !.phase = "stamped"]
            /\ UNCHANGED last
    /\ UNCHANGED <<price, balance, plans, positions, orders, legs, since_entry,
                   enabled, mvars, fvars>>

\* lines 149-165: gemini_engine.verify_trade_setup
ExecVerify ==
    /\ ExecAt("stamped")
    /\ IF call.required /\ ~ call.gemini.approved
       THEN ExecReturn("gemini_rejected")
       ELSE /\ sched' = [sched EXCEPT !.phase = "verified"]
            /\ UNCHANGED last
    /\ UNCHANGED <<price, balance, time_since_last_trade, plans, positions, orders,
                   legs, since_entry, enabled, mvars, fvars>>

\* the lot size of the call
ExecLot ==
    calculate_lot_size(call.pair, Abs(price[call.pair] - CallWindow.sma_21),
                       price[call.pair], balance, call.info)

ExecType == IF ExecuteSignal(CallWindow) = 1 THEN "BUY" ELSE "SELL"

ExecTakeProfitPrice ==
    IF ExecuteSignal(CallWindow) = 1
    THEN price[call.pair] + 2 * Abs(price[call.pair] - CallWindow.sma_21)
    ELSE price[call.pair] - 2 * Abs(price[call.pair] - CallWindow.sma_21)

\* lines 167-171: calculate_lot_size
ExecSize ==
    /\ ExecAt("verified")
    /\ IF ExecLot <= 0
       THEN ExecReturn("invalid_lot")
       ELSE /\ sched' = [sched EXCEPT !.phase = "sized"]
            /\ UNCHANGED last
    /\ UNCHANGED <<price, balance, time_since_last_trade, plans, positions, orders,
                   legs, since_entry, enabled, mvars, fvars>>

\* lines 176, 221: open_buy_trade_without_sl / open_sell_trade_without_sl
ExecMarket ==
    /\ ExecAt("sized")
    /\ IF ~ VenueTakesMarket(call.pair, call.okM)
       THEN /\ ExecReturn("order_rejected")
            /\ UNCHANGED <<positions, since_entry>>
       ELSE /\ positions' = [positions EXCEPT ![call.pair] =
                   Append(@, MarketPosition(ExecType, call.fill, ExecLot, 0))]
            /\ since_entry' = [since_entry EXCEPT ![call.pair] = 0]
            /\ sched' = [sched EXCEPT !.phase = "opened"]
            /\ UNCHANGED last
    /\ UNCHANGED <<price, balance, time_since_last_trade, plans, orders, legs,
                   enabled, mvars, fvars>>

\* lines 184, 229: modify_position_sl_tp on the position just opened
ExecTakeProfit ==
    /\ ExecAt("opened")
    /\ positions' = [positions EXCEPT ![call.pair][Len(positions[call.pair])].tp =
                        IF call.okT THEN ExecTakeProfitPrice ELSE 0]
    /\ sched' = [sched EXCEPT !.phase = "tp_set"]
    /\ UNCHANGED <<price, balance, time_since_last_trade, plans, orders, legs,
                   since_entry, enabled, last, mvars, fvars>>

\* the level-1 order of the call
ExecPendingOrder ==
    LET s21 == CallWindow.sma_21
        dist == Abs(price[call.pair] - s21)
    IN  IF ExecuteSignal(CallWindow) = 1
        THEN set_pending_order(call.pair, "SELL_STOP", s21, ExecLot * 2,
                               s21 + 3 * dist, s21 - 2 * dist, call.okP, 0)
        ELSE set_pending_order(call.pair, "BUY_STOP", s21, ExecLot * 2,
                               s21 - 3 * dist, s21 + 2 * dist, call.okP, 0)

\* lines 195-203, 240-248: set_pending_order
ExecPending ==
    /\ ExecAt("tp_set")
    /\ orders' = [orders EXCEPT ![call.pair] =
                     IF ExecPendingOrder = None THEN @ ELSE Append(@, ExecPendingOrder)]
    /\ legs' = [legs EXCEPT ![call.pair] =
                   IF ExecPendingOrder = None THEN << >> ELSE << Leg(ExecPendingOrder) >>]
    /\ sched' = [sched EXCEPT !.phase = "pending_set"]
    /\ UNCHANGED <<price, balance, time_since_last_trade, plans, positions,
                   since_entry, enabled, last, mvars, fvars>>

\* lines 204-217, 250-262: the plan is stored and execute() returns True
ExecStorePlan ==
    /\ ExecAt("pending_set")
    /\ plans' = [plans EXCEPT ![call.pair] =
                    [type |-> ExecType, initial_entry |-> price[call.pair],
                     initial_lot_size |-> ExecLot, sma_21 |-> CallWindow.sma_21,
                     take_profit |-> ExecTakeProfitPrice,
                     entry_to_sma_distance |-> Abs(price[call.pair] - CallWindow.sma_21),
                     total_trades |-> 0]]
    /\ ExecReturn("opened")
    /\ UNCHANGED <<price, balance, time_since_last_trade, positions, orders, legs,
                   since_entry, enabled, mvars, fvars>>

\* the places of execute() between two of its calls
ExecPlaces == {"execute", "stamped", "verified", "sized", "opened", "tp_set",
               "pending_set"}

\* KeyboardInterrupt while execute() runs: start_trading line 989,
\* execute_multiple_pairs line 941
Interrupt ==
    /\ call.fn = "execute"
    /\ sched.phase \in ExecPlaces
    /\ sched' = [sched EXCEPT !.phase = "interrupted"]
    /\ UNCHANGED <<price, balance, time_since_last_trade, plans, positions, orders,
                   legs, since_entry, enabled, last, mvars, fvars>>

\* --------------------------------------------------------- initialize_mt5
\* mt5_handler.py line 28
max_retries == 3

\* what mt5.initialize() without credentials can answer: True, False with
\* error -10003 "MetaTrader 5 x64 not found", False with error -10005 (IPC
\* timeout), False with any other error, or an exception
TerminalAnswers == {"ok", "not_found", "ipc_timeout", "other_error", "raises"}

\* mt5.initialize(login=..., password=..., server=...)
LoginAnswers == {"ok", "failed", "raises"}

\* mt5.account_info()
AccountAnswers == {"ok", "none", "raises"}

NotAsked == "not_asked"

\* the call of initialize_mt5 in progress: the attempt of the for loop, the
\* place inside it and the venue's answers of each attempt so far
InitializeCall(attempt, pc, answers) ==
    [fn |-> "initialize_mt5", attempt |-> attempt, pc |-> pc, answers |-> answers]

\* the current attempt with one more answer
Answered(field, a) ==
    [call.answers EXCEPT ![call.attempt] = [@ EXCEPT ![field] = a]]

\* "return True" and "return False"
InitializeReturn(value, answers) ==
    /\ returned' = [fn |-> "initialize_mt5", value |-> value]
    /\ call' = InitializeCall(call.attempt, "done", answers)

\* "continue": the next attempt of the for loop, and "return False" of line
\* 87 when the loop is over
Continue(answers) ==
    IF call.attempt < max_retries
    THEN /\ call' = InitializeCall(call.attempt + 1, "terminal",
                        Append(answers, [terminal |-> NotAsked, login |-> NotAsked,
                                         account |-> NotAsked]))
         /\ UNCHANGED returned
    ELSE InitializeReturn(FALSE, answers)

\* "if attempt < max_retries: continue" followed by "return False"
RetryOrFail(answers) ==
    IF call.attempt < max_retries THEN Continue(answers)
    ELSE InitializeReturn(FALSE, answers)

\* lines 35-52: the terminal is tried without credentials; only the errors
\* -10003 and -10005 end the attempt, any other failure goes on to line 55
InitializeTerminal ==
    /\ call.fn = "initialize_mt5"
    /\ call.pc = "terminal"
    /\ \E t \in TerminalAnswers :
          IF t = "raises" THEN RetryOrFail(Answered("terminal", t))
          ELSE IF t \in {"not_found", "ipc_timeout"}
          THEN Continue(Answered("terminal", t))
          ELSE /\ call' = InitializeCall(call.attempt, "login", Answered("terminal", t))
               /\ UNCHANGED returned
    /\ UNCHANGED <<price, balance, svars, mvars>>

\* lines 55-62: the login with credentials
InitializeLogin ==
    /\ call.fn = "initialize_mt5"
    /\ call.pc = "login"
    /\ \E l \in LoginAnswers :
          IF l = "ok"
          THEN /\ call' = InitializeCall(call.attempt, "account", Answered("login", l))
               /\ UNCHANGED returned
          ELSE RetryOrFail(Answered("login", l))
    /\ UNCHANGED <<price, balance, svars, mvars>>

\* lines 67-78: the account information
InitializeAccount ==
    /\ call.fn = "initialize_mt5"
    /\ call.pc = "account"
    /\ \E a \in AccountAnswers :
          IF a = "ok" THEN InitializeReturn(TRUE, Answered("account", a))
          ELSE RetryOrFail(Answered("account", a))
    /\ UNCHANGED <<price, balance, svars, mvars>>

\* initialize_mt5 called, after the shutdown_mt5 of line 25
InitializeInit ==
    /\ Idle
    /\ call = InitializeCall(1, "terminal",
                 << [terminal |-> NotAsked, login |-> NotAsked, account |-> NotAsked] >>)
    /\ returned = NoCall

InitializeNext ==
    \/ InitializeTerminal
    \/ InitializeLogin
    \/ InitializeAccount

InitializeSpec == InitializeInit /\ [][InitializeNext]_vars

\* ---------------------------------------------------------- specification
Init ==
    /\ price = [p \in Pairs |-> 110000]
    /\ balance = StartBalance
    /\ time_since_last_trade = [p \in Pairs |-> NoTime]
    /\ plans = [p \in Pairs |-> NoPlan]
    /\ positions = [p \in Pairs |-> << >>]
    /\ orders = [p \in Pairs |-> << >>]
    /\ legs = [p \in Pairs |-> << >>]
    /\ since_entry = [p \in Pairs |-> NoTime]
    /\ sched = [i |-> 1, phase |-> "exit"]
    /\ enabled = {"EURUSD"}
    /\ last = [op |-> "init", pair |-> "", ret |-> ""]
    /\ mt = MtIdle
    /\ contingency_trades = << >>
    /\ open_tickets = {}
    /\ call = NoCall
    /\ returned = NoCall

\* PairError, which only leaves out the two calls that follow for the pair,
\* is followed in CycleSpec
Next ==
    \/ Tick
    \/ SkipPair
    \/ \E p \in Pairs : MarketMove(p)
    \/ \E p \in Pairs : ExitCheck(p)
    \/ \E p \in Pairs : check_pending_orders(p)
    \/ \E p \in Pairs : execute(p)

Spec == Init /\ [][Next]_vars

\* monitor_trade called for a primary position just opened at the market
MonitorInit ==
    /\ price = [p \in Pairs |-> 110000]
    /\ balance = StartBalance
    /\ time_since_last_trade = [p \in Pairs |-> NoTime]
    /\ plans = [p \in Pairs |-> NoPlan]
    /\ positions = [p \in Pairs |-> << >>]
    /\ orders = [p \in Pairs |-> << >>]
    /\ legs = [p \in Pairs |-> << >>]
    /\ since_entry = [p \in Pairs |-> NoTime]
    /\ sched = [i |-> 1, phase |-> "exit"]
    /\ enabled = {MonitoredPair}
    /\ last = [op |-> "init", pair |-> "", ret |-> ""]
    /\ \E args \in { <<"buy", 109900>>, <<"sell", 110100>> }, sma \in LatestSMAs :
          mt = MtStart(args[1], args[2], sma)
    /\ contingency_trades = << >>
    /\ open_tickets = {order_id}
    /\ call = NoCall
    /\ returned = NoCall

MonitorNext ==
    \/ MainLoop
    \/ ContingencySetup
    \/ WaitLoop
    \/ ContingencyLoop
    \/ MonitorMarketMove
    \/ BalanceChange

MonitorSpec == MonitorInit /\ [][MonitorNext]_vars

\* monitor_trade in its monitoring loop (lines 94-155), up to the pass that
\* leaves it.  The loop keeps running: every venue call returns and
\* time.sleep ends, so a pass that can be made is made; nothing is assumed
\* of the market and the balance.
MainLoopNext ==
    \/ MainLoop
    \/ MonitorMarketMove
    \/ BalanceChange

MainLoopSpec ==
    /\ MonitorInit
    /\ [][MainLoopNext]_vars
    /\ WF_vars(MainLoop)

\* check_exit_conditions called on an open position
ExitInit ==
    /\ Idle
    /\ call \in ExitCalls
    /\ returned = NoCall

ExitNext == CheckExit

ExitSpec == ExitInit /\ [][ExitNext]_vars

\* the cycles of execute_multiple_pairs over the pair list while time passes
\* and the market stands still, with one or both symbols enabled at the venue
CycleInit ==
    /\ price = [p \in Pairs |-> PatternPrice]
    /\ balance = StartBalance
    /\ time_since_last_trade = [p \in Pairs |-> NoTime]
    /\ plans = [p \in Pairs |-> NoPlan]
    /\ positions = [p \in Pairs |-> << >>]
    /\ orders = [p \in Pairs |-> << >>]
    /\ legs = [p \in Pairs |-> << >>]
    /\ since_entry = [p \in Pairs |-> NoTime]
    /\ sched = [i |-> 1, phase |-> "exit"]
    /\ enabled \in {{"EURUSD"}, Pairs}
    /\ last = [op |-> "init", pair |-> "", ret |-> ""]
    /\ mt = MtIdle
    /\ contingency_trades = << >>
    /\ open_tickets = {}
    /\ call = NoCall
    /\ returned = NoCall

CycleNext ==
    \/ Tick
    \/ SkipPair
    \/ \E p \in Pairs : ExitCheck(p)
    \/ \E p \in Pairs : PairError(p)
    \/ \E p \in Pairs : check_pending_orders(p)
    \/ \E p \in Pairs : execute(p)

CycleSpec == CycleInit /\ [][CycleNext]_vars

\* execute called on a fetched window, no trade made before
EntryInit ==
    /\ Idle
    /\ call \in EntryCalls
    /\ returned = NoCall

EntryNext == ExecuteCall

EntrySpec == EntryInit /\ [][EntryNext]_vars

\* calculate_lot_size called on its own
SizerInit ==
    /\ Idle
    /\ call \in SizerCalls
    /\ returned = NoCall

SizerNext == SizeLot

SizerSpec == SizerInit /\ [][SizerNext]_vars

\* check_consecutive_candles called on its own
PatternInit ==
    /\ Idle
    /\ call \in PatternCalls
    /\ returned = NoCall

PatternNext == CheckPattern

PatternSpec == PatternInit /\ [][PatternNext]_vars

\* the two signal generators called on their own
SignalInit ==
    /\ Idle
    /\ call \in SignalCalls
    /\ returned = NoCall

SignalNext ==
    \/ GenerateSignal
    \/ GenerateSmaCrossoverSignal

SignalSpec == SignalInit /\ [][SignalNext]_vars

\* execute() run step by step with a KeyboardInterrupt at any place
InterruptInit ==
    /\ Idle
    /\ call \in EntryCalls
    /\ returned = NoCall

InterruptNext ==
    \/ ExecEnter
    \/ ExecStamp
    \/ ExecVerify
    \/ ExecSize
    \/ ExecMarket
    \/ ExecTakeProfit
    \/ ExecPending
    \/ ExecStorePlan
    \/ Interrupt

InterruptSpec == InterruptInit /\ [][InterruptNext]_vars

\* calculate_rsi called on its own
RsiInit ==
    /\ Idle
    /\ call \in RsiCalls
    /\ returned = NoCall

RsiNext == ComputeRsi

RsiSpec == RsiInit /\ [][RsiNext]_vars

\* ------------------------------------------------------------- properties
\* the primary positions of p: the market orders execute() opened
Primaries(p) ==
    { i \in 1..Len(positions[p]) : positions[p][i].comment = "Mario Trader" }

\* the step is a call of execute(p) that returned r
Executed(p, r) ==
    /\ sched.phase = "execute"
    /\ sched'.phase = "exit"
    /\ last' = [op |-> "execute", pair |-> p, ret |-> r]

\* CONTINGENCY_TRADE_SETTINGS["lot_size_multipliers"], v1 .. v13, in hundredths
lot_size_multipliers ==
    << 100, 133, 100, 133, 244, 399, 450, 670, 950, 1133, 1450, 1753, 1965 >>

\* lot is initial_lot x multiplier of level k, up to one volume step
FollowsTable(lot, initial_lot, k) ==
    Abs(lot * 100 - initial_lot * lot_size_multipliers[k]) < 100 * volume_step

\* C1: at most one primary position is open per instrument at any time;
\* execute() opens no primary while the previous one is still open, also
\* after the cooldown has elapsed.
C1_OnePrimaryPerInstrument ==
    \A p \in Pairs : Cardinality(Primaries(p)) <= 1

\* C2: no second primary entry is opened on an instrument within one hour of
\* the previous entry, whatever exit checks, cascade activity and market
\* moves happen in between.
C2_CooldownBetweenEntries ==
    [][\A p \in Pairs :
          Executed(p, "opened") => (since_entry[p] = NoTime \/ since_entry[p] >= Hour)]_vars

\* C2, reached: a second primary entry has just been opened on an instrument
\* whose first primary is still open
C2_SecondEntryOpened ==
    \E p \in Pairs :
        /\ last = [op |-> "execute", pair |-> p, ret |-> "opened"]
        /\ Cardinality(Primaries(p)) = 2
        /\ since_entry[p] = 0

\* C6: when the venue rejects the market order of execute(), the cooldown
\* table and the stored plan are as they were before the call.
C6_RejectedLeavesStateUntouched ==
    [][\A p \in Pairs :
          Executed(p, "order_rejected") =>
              /\ time_since_last_trade'[p] = time_since_last_trade[p]
              /\ plans'[p] = plans[p]]_vars

MonitorCycle ==
    /\ mt.pc \in {"main", "wait", "cascade"}
    /\ price' = price
    /\ balance' = balance
    /\ mvars' # mvars
    /\ mt'.event # "error"

\* C4: in any cycle in which a position is open and the balance is at or
\* below 80% of the balance recorded when monitoring began, the monitor
\* closes the primary and every leg in that cycle, by the kill-switch and
\* not by a later check.
C4_DrawdownKillSwitch ==
    [][( /\ MonitorCycle
         /\ open_tickets # {}
         /\ balance * 100 <= (100 - drawdown_percent) * mt.initial_balance )
       => (open_tickets' = {} /\ mt'.event = "kill_switch")]_vars

\* C5: an order the venue refused is never recorded as a leg: every entry
\* of contingency_trades carries the ticket of an accepted order, and the
\* counter counts accepted orders only.
C5_RejectedNeverRecorded ==
    /\ \A i \in 1..Len(contingency_trades) : contingency_trades[i].ticket_id # 0
    /\ mt.num_contingency_trades =
          Cardinality({ i \in 1..Len(contingency_trades) :
                          contingency_trades[i].ticket_id # 0 })

\* C8: the number of contingency legs placed for one plan never exceeds
\* the configured maximum number of cascade levels.
C8_MaxCascadeDepth ==
    /\ Len(contingency_trades) <= max_cascade_levels
    /\ mt.num_contingency_trades <= max_cascade_levels

\* C3: in the ordered list of contingency legs of one plan, leg k and leg
\* k+1 never share a direction.
C3_LegsAlternate ==
    \A k \in 1..(Len(contingency_trades) - 1) :
        contingency_trades[k].trade_type # contingency_trades[k + 1].trade_type

\* C9: the level-2 order, placed after the level-1 order against the
\* primary, is in the primary's direction, at the original entry price and
\* never at the 21 SMA, with lot = initial lot x multiplier of level 2.
C9_LevelTwoPlacement ==
    Len(contingency_trades) >= 2 =>
        /\ contingency_trades[2].trade_type = mt.order_type
        /\ contingency_trades[2].entry_price = mt.entry_price
        /\ contingency_trades[2].entry_price # mt.latest_sma
        /\ FollowsTable(contingency_trades[2].volume, mt_volume, 2)

\* C10: the leg at level k, for k from 1 to 13, has lot size initial lot x
\* multiplier of level k of the table 1, 1.33, 1, 1.33, 2.44, 3.99, 4.5,
\* 6.7, 9.5, 11.33, 14.5, 17.53, 19.65.
C10_LotsFollowTable ==
    \A k \in 1..Min(Len(contingency_trades), Len(lot_size_multipliers)) :
        FollowsTable(contingency_trades[k].volume, mt_volume, k)

\* the call of check_exit_conditions is for a position that is not in profit
\* while the price is within 5 pips of the nearest support (Buy) or
\* resistance (Sell)
ReturnedToLevel ==
    LET P == call.current_price
        nearest == find_nearest_level(P, call.levels, call.position.type)
    IN  /\ nearest # 0
        /\ Abs(P - nearest) * 10000 < 5 * PointDen("EURUSD")

InProfit ==
    IF call.position.type = "BUY"
    THEN call.current_price > call.position.price_open
    ELSE call.current_price < call.position.price_open

\* C11: exit rules are tried in the order drawdown, profit target, RSI
\* divergence in profit, support/resistance return, hold: a return to a
\* level within tolerance closes the position whenever no earlier rule
\* matched, as for a position that is not in profit.
C11_LevelReturnCloses ==
    (returned # NoCall /\ ~ InProfit /\ ReturnedToLevel)
        => returned.reason = "support_resistance"


\* the reasons with which check_exit_conditions says "close"
ExitReasons == {"rsi_divergence", "support_resistance", "gemini"}

\* the step is the scheduler's exit check for p and it returned r
ExitChecked(p, r) ==
    /\ sched.phase = "exit"
    /\ sched'.phase = "pending"
    /\ last' = [op |-> "exit", pair |-> p, ret |-> r]

\* C12: when the exit check of a cycle decides that the position of an
\* instrument is to be closed, the instrument is flat afterwards: no position
\* of it (primary or triggered leg) is open and no pending order of it is left.
C12_ExitClosesEverything ==
    [][\A p \in Pairs : \A r \in ExitReasons :
          ExitChecked(p, r) => (positions'[p] = << >> /\ orders'[p] = << >>)]_vars

\* C13: a stored contingency plan exists only while a position of its
\* instrument is open: once the trade is over the plan is gone.
C13_PlanOnlyWhileOpen ==
    \A p \in Pairs : plans[p] # NoPlan => positions[p] # << >>

\* C14: a divergence closes a position only when it is of the kind that
\* speaks against the position: a Buy is closed on a bearish divergence, a
\* Sell on a bullish one (and, by the code's guard, only while in profit).
C14_OnlyOpposingDivergenceCloses ==
    (mt.pc = "closed" /\ mt.event = "rsi_divergence")
        => /\ mt.order_type = "buy" => mt.divergence_signal = bearish_divergence
           /\ mt.order_type = "sell" => mt.divergence_signal = bullish_divergence

\* the price has reached the profit target of the monitored trade: twice the
\* entry's distance to the 21-SMA beyond the entry price
AtProfitTarget ==
    \/ /\ mt.order_type = "buy"
       /\ price[MonitoredPair] >= mt.entry_price + 2 * mt.distance_to_21_sma
    \/ /\ mt.order_type = "sell"
       /\ price[MonitoredPair] <= mt.entry_price - 2 * mt.distance_to_21_sma

\* C15: the exits stay in force after monitor_trade has entered contingency
\* trading: a pass of the waiting loop or of the cascade loop made while the
\* price is at the profit target closes the primary and every leg.
C15_ExitsDuringContingency ==
    [][( /\ mt.pc \in {"wait", "cascade"}
         /\ mvars' # mvars
         /\ price' = price
         /\ open_tickets # {}
         /\ AtProfitTarget )
       => (open_tickets' = {} /\ mt'.pc = "closed")]_vars

\* C16: when the risk sizer cannot get the account info, the symbol info or
\* the tick, execute() aborts the entry: no market order and no pending order
\* is placed.
C16_SizingInvalidAborts ==
    (returned # NoCall /\ call.fn = "execute" /\ ~ call.info)
        => \A p \in Pairs : positions[p] = << >> /\ orders[p] = << >>

\* C17: execute() makes no entry from a window of fewer than 200 candles,
\* where the 200-SMA is undefined.
C17_ShortWindowSkipped ==
    (returned # NoCall /\ call.fn = "execute" /\ call.count < 200)
        => /\ returned.reason # "opened"
           /\ \A p \in Pairs : positions[p] = << >> /\ orders[p] = << >>

\* the results with which execute() ends a cycle without a signal
NoSignalResults == {"no_data", "below_200_sma", "sma_too_close", "no_signal"}

\* C18: a call of execute() that ends without a signal (no data, a filter
\* fails, no pattern) leaves the cooldown table and the stored plans exactly
\* as they were and sends no order.
C18_NoSignalLeavesState ==
    [][\A p \in Pairs : \A r \in NoSignalResults :
          Executed(p, r) => /\ time_since_last_trade' = time_since_last_trade
                            /\ plans' = plans
                            /\ positions' = positions
                            /\ orders' = orders]_vars

\* execute() has just ended without a signal for an instrument that has a
\* cooldown stamp and a stored plan from an earlier entry
C18_NoSignalAfterEntry ==
    /\ last.op = "execute"
    /\ last.ret \in NoSignalResults
    /\ plans[last.pair] # NoPlan
    /\ time_since_last_trade[last.pair] # NoTime

\* the step is the failure of the processing of pair p
Failed(p) ==
    /\ sched.phase = "exit"
    /\ PairList[sched.i] = p
    /\ last' = [op |-> "error", pair |-> p, ret |-> ""]

\* C19: an exception raised while one instrument is processed does not end
\* the cycle: the scheduler goes on with the next pair of the list (after the
\* last pair, with the first pair of the next cycle), and no position, order,
\* plan or cooldown stamp of any instrument is touched by the failure.
C19_FailureIsolated ==
    [][\A p \in Pairs :
          Failed(p) => /\ sched' = [i |-> (sched.i % Len(PairList)) + 1,
                                    phase |-> "exit"]
                       /\ positions' = positions
                       /\ orders' = orders
                       /\ plans' = plans
                       /\ time_since_last_trade' = time_since_last_trade]_vars

\* the processing of the first pair has just failed and the scheduler stands
\* at the second pair, a valid one, in the same cycle
C19_AtNextPairAfterFailure ==
    /\ last = [op |-> "error", pair |-> PairList[1], ret |-> ""]
    /\ sched = [i |-> 2, phase |-> "exit"]
    /\ PairList[2] \in enabled

\* the clamped lot size of the call, in thousandths of a lot
ClampedOfCall ==
    ClampedLotMilli(call.pair, call.dist, call.current_price, call.account_balance)

\* C20: the lot size calculate_lot_size computes lies within
\* [volume_min, volume_max], is a whole multiple of volume_step, and is the
\* clamped value rounded down to the step.
C20_ClampedThenRoundedDown ==
    (returned # NoCall /\ call.fn = "calculate_lot_size" /\ call.info)
        => /\ returned.lot_size >= volume_min
           /\ returned.lot_size <= volume_max
           /\ returned.lot_size % volume_step = 0
           /\ returned.lot_size
                  = (ClampedOfCall \div (volume_step * 10)) * volume_step

\* the stop distance of the call in pips (10 points to the pip), with the
\* floor of 10 pips, 100 pips for JPY pairs
StopDistanceInPips ==
    Max(call.dist \div 10, IF EndsWithJPY(call.pair) THEN 100 ELSE 10)

\* the lot size of the call before clamping, in thousandths of a lot
RawOfCall ==
    LET d == IF call.dist < min_stop_loss_distance(call.pair)
             THEN min_stop_loss_distance(call.pair) ELSE call.dist
    IN  RawLotMilli(call.pair, d, call.current_price, call.account_balance)

\* C21: for EURUSD on a USD account (pip value 10 per lot) the lot size
\* before clamping is the risk amount, 2% of the balance, divided by the stop
\* distance in pips (at least 10) times the pip value per lot: 2 lots for
\* balance 10000 and a stop distance of 10 pips.
C21_RawLotFromPips ==
    (returned # NoCall /\ call.fn = "calculate_lot_size" /\ call.info
        /\ call.pair = "EURUSD")
        => RawOfCall = (20 * call.account_balance) \div (StopDistanceInPips * 10)

\* candle i of the fetched window of the call closed below / above its open
BearishAt(i) == call.window.candles[i].close < call.window.candles[i].open
BullishAt(i) == call.window.candles[i].close > call.window.candles[i].open

\* the account is in the state the call left it in
ExecuteReturned == returned # NoCall /\ call.fn = "execute"

\* C22: on a full window whose latest close is above the 200-SMA, whose 21-
\* and 50-SMA are far enough apart, whose three candles before the latest are
\* bearish and whose latest candle is bullish, with RSI above 50, execute()
\* finds a Buy signal.
C22_BuyRuleEmitsBuy ==
    ( /\ ExecuteReturned
      /\ call.count >= 200
      /\ price[call.pair] > call.window.sma_200
      /\ Abs(call.window.sma_21 - call.window.sma_50) >= min_sma_distance(call.pair)
      /\ \A i \in 1..3 : BearishAt(i)
      /\ BullishAt(4)
      /\ call.window.rsi > 50 )
        => returned.reason \notin NoSignalResults

\* C23: on a full window execute() opens a Sell only when the latest close
\* is below the 200-SMA, after three bullish candles and a bearish one, with RSI below 50.
C23_SellOnlyBelow200 ==
    ( /\ ExecuteReturned
      /\ call.count >= 200
      /\ positions[call.pair] # << >>
      /\ positions[call.pair][1].type = "SELL" )
        => /\ price[call.pair] < call.window.sma_200
           /\ \A i \in 1..3 : BullishAt(i)
           /\ BearishAt(4)
           /\ call.window.rsi < 50

\* candle k of the window of the call, counted back from the latest
\* (k = 0), closed above (1), below (-1) or at (0) its open
BodyBack(k) ==
    LET c == call.df[Len(call.df) - k]
    IN  IF c.close > c.open THEN 1 ELSE IF c.close < c.open THEN -1 ELSE 0

\* C24: check_consecutive_candles returns True exactly when the window has
\* more than count candles, the latest candle runs against the direction and
\* each of the count candles before it runs in the direction; so never for a
\* shorter window, a shorter run, a mixed run or a doji among these candles,
\* and whatever the candles before the run are.
C24_PatternExactly ==
    (returned # NoCall /\ call.fn = "check_consecutive_candles")
        => (returned.result
              <=> /\ Len(call.df) >= call.count + 1
                  /\ BodyBack(0) = 0 - call.direction
                  /\ \A k \in 1..call.count : BodyBack(k) = call.direction)

\* the pattern was found in a window whose run is longer than count
C24_LongerRunFound ==
    /\ returned # NoCall
    /\ call.fn = "check_consecutive_candles"
    /\ returned.result
    /\ Len(call.df) = call.count + 2
    /\ BodyBack(call.count + 1) = call.direction

\* C27: every defined value of the RSI series lies in [0, 100], and it is
\* 100 exactly when the average loss over the lookback is 0 and the average
\* gain is positive.
C27_RsiWithinRange ==
    (returned # NoCall /\ call.fn = "calculate_rsi")
        => \A i \in 1..Len(returned.rsi) :
             LET v == returned.rsi[i]
             IN  v.kind # "nan"
                   => /\ v.kind = "num"
                      /\ 0 <= v.n
                      /\ v.n <= 100 * v.d
                      /\ (v.n = 100 * v.d)
                           <=> /\ avg_loss(call.close, call.period, i).n = 0
                               /\ avg_gain(call.close, call.period, i).n > 0

\* a series whose window has slid past its only loss: the latest RSI is 100,
\* an earlier one lies strictly between 0 and 100
C27_HundredAfterLossLeft ==
    /\ returned # NoCall
    /\ call.fn = "calculate_rsi"
    /\ call.period < Len(call.close)
    /\ returned.rsi[Len(returned.rsi)].kind = "num"
    /\ returned.rsi[Len(returned.rsi)].n = 100 * returned.rsi[Len(returned.rsi)].d
    /\ \E i \in 1..Len(returned.rsi) :
          /\ returned.rsi[i].kind = "num"
          /\ 0 < returned.rsi[i].n
          /\ returned.rsi[i].n < 100 * returned.rsi[i].d

\* the window of the call is flat: the four candles and the three averages
\* are at the latest close
FlatCall ==
    /\ \A i \in 1..4 : call.window.candles[i]
                           = Candle(price[call.pair], price[call.pair],
                                    price[call.pair], price[call.pair])
    /\ call.window.sma_21 = price[call.pair]
    /\ call.window.sma_50 = price[call.pair]
    /\ call.window.sma_200 = price[call.pair]

\* C25: on a window of flat-price candles execute() finds no signal and
\* opens nothing.
C25_FlatWindowNoSignal ==
    (ExecuteReturned /\ FlatCall)
        => /\ returned.reason \in NoSignalResults
           /\ positions[call.pair] = << >>
           /\ orders[call.pair] = << >>
           /\ plans[call.pair] = NoPlan

\* execute() has returned from a flat window of 200 candles whose RSI is
\* undefined, with a venue that would have accepted an order
C25_FlatWindowOf200 ==
    /\ ExecuteReturned
    /\ FlatCall
    /\ call.count = 200
    /\ call.window.rsi = NaN
    /\ call.okM

\* a generator has returned
SignalReturned ==
    /\ call.fn \in {"generate_signal", "generate_sma_crossover_signal"}
    /\ returned # NoCall

\* C26: what the two signal generators return is a signal of -1, 0 or 1 with
\* the last close as price; the stop of a buy lies at or below that price and
\* the stop of a sell at or above it, at the distance |21 SMA - price|, which
\* is never negative; a signal of 0 carries the stop 0.
C26_StopOnLosingSide ==
    SignalReturned =>
        LET r == returned.result
            latest == Iloc(call.df, 1)
            distance == Abs(latest.sma_21 - r.price)
        IN  /\ r.signal \in {-1, 0, 1}
            /\ r.price = latest.close
            /\ distance >= 0
            /\ r.signal = 1 => (r.stop_loss <= r.price /\ r.price - r.stop_loss = distance)
            /\ r.signal = -1 => (r.stop_loss >= r.price /\ r.stop_loss - r.price = distance)
            /\ r.signal = 0 => r.stop_loss = 0

\* generate_signal has returned a buy whose stop lies below the price
C26_BuyWithStopBelow ==
    /\ SignalReturned
    /\ call.fn = "generate_signal"
    /\ returned.result.signal = 1
    /\ returned.result.stop_loss < returned.result.price

\* execute() found a signal on the window of the call
SignalFound ==
    /\ ExecuteReturned
    /\ returned.reason \notin NoSignalResults

\* C28: when execute() has a signal and the Gemini call fails or its answer
\* cannot be parsed, the entry is not stopped by the verification step,
\* whatever GEMINI_SETTINGS["verification"]["required"] is: execute() goes
\* on to the sizing and the orders.
C28_OracleFailureNeverBlocks ==
    (SignalFound /\ call.outcome.kind \in {"api_error", "unparseable"})
        => returned.reason # "gemini_rejected"

\* a Gemini call that raises never stops the entry; an answer that cannot be
\* parsed counts as a rejection and stops it exactly when the verification is
\* required
C28_OnlyUnparsedBlocksWhenRequired ==
    (SignalFound /\ call.outcome.kind \in {"api_error", "unparseable"})
        => (returned.reason = "gemini_rejected"
                <=> (call.outcome.kind = "unparseable" /\ call.required))

\* a call that raised, verification required, and the position opened
C28_OpenedAfterApiError ==
    /\ SignalFound
    /\ call.outcome.kind = "api_error"
    /\ call.required
    /\ returned.reason = "opened"
    /\ positions[call.pair] # << >>

\* check_exit_conditions has returned
ExitReturned == returned # NoCall /\ call.fn = "check_exit_conditions"

\* one of the rules before the Gemini step says "close"
RuleBasedClose ==
    /\ InProfit
    /\ \/ check_rsi_divergence(call.tail, call.position.type)
       \/ ReturnedToLevel

EntryOpened ==
    /\ ExecuteReturned
    /\ returned.reason = "opened"

\* C30: after an entry the primary is a market position in the direction of
\* the signal without a stop-loss at the venue, its take-profit lies at twice
\* the stop distance beyond the price at which it was opened (above for a
\* Buy, below for a Sell), and the stored plan records that entry price, the
\* position's lot size and its take-profit.
C30_PrimaryAndPlanAgree ==
    EntryOpened =>
        LET pos == positions[call.pair][1]
            plan == plans[call.pair]
            signal == ExecuteSignal(call.window)
            stopDistance == Abs(price[call.pair] - call.window.sma_21)
        IN  /\ pos.type = (IF signal = 1 THEN "BUY" ELSE "SELL")
            /\ pos.comment = "Mario Trader"
            /\ pos.sl = 0
            /\ pos.tp = (IF signal = 1 THEN pos.price_open + 2 * stopDistance
                                       ELSE pos.price_open - 2 * stopDistance)
            /\ plan.initial_entry = pos.price_open
            /\ plan.initial_lot_size = pos.volume
            /\ plan.take_profit = pos.tp

\* C31: every successful primary entry registers exactly one level-1 leg: a
\* pending stop order against the primary at the 21 SMA, for a sell-stop with
\* its stop-loss three stop distances above and its take-profit two stop
\* distances below that level (mirrored for a buy-stop); a stored plan has
\* its level-1 leg.
C31_LevelOneLegRegistered ==
    EntryOpened =>
        LET os == orders[call.pair]
            signal == ExecuteSignal(call.window)
            reference == call.window.sma_21
            stopDistance == Abs(price[call.pair] - reference)
        IN  /\ plans[call.pair] # NoPlan
            /\ Len(os) = 1
            /\ Len(legs[call.pair]) = 1
            /\ os[1].price = reference
            /\ IF signal = 1
               THEN /\ os[1].type = "SELL_STOP"
                    /\ os[1].sl = reference + 3 * stopDistance
                    /\ os[1].tp = reference - 2 * stopDistance
               ELSE /\ os[1].type = "BUY_STOP"
                    /\ os[1].sl = reference - 3 * stopDistance
                    /\ os[1].tp = reference + 2 * stopDistance

\* generate_sma_crossover_signal has returned a Buy or a Sell
CrossoverSignal ==
    /\ SignalReturned
    /\ call.fn = "generate_sma_crossover_signal"
    /\ returned.result.signal # 0

\* the conditions of the strategy on the window of the call, as the function
\* evaluates them
Above200Sma == Gt(Iloc(call.df, 1).close, Iloc(call.df, 1).sma_200)

SufficientSeparation ==
    \/ Abs(Iloc(call.df, 1).sma_21 - call.df.sma_50) > signal_sma_separation
    \/ check_price_crossed_200sma_recently(call.df)

FullPattern ==
    IF returned.result.signal = 1
    THEN check_consecutive_candles(call.df.rows, -1, 3)
    ELSE check_consecutive_candles(call.df.rows, 1, 3)

RsiOnSignalSide ==
    IF returned.result.signal = 1 THEN Gt(call.df.rsi, 50) ELSE Lt(call.df.rsi, 50)

\* C32: debug_mode relaxes the candle-pattern condition only: without it no
\* signal is emitted without the full pattern, and with it a forced signal
\* still needs the 200 SMA condition, the SMA separation and the RSI
\* condition.
C32_DebugRelaxesPatternOnly ==
    CrossoverSignal =>
        /\ ~ call.debug_mode => FullPattern
        /\ Above200Sma
        /\ SufficientSeparation
        /\ RsiOnSignalSide

\* without debug_mode a signal needs all four conditions; with it a signal
\* still needs the 200 SMA condition and the RSI condition, the pattern and
\* the SMA separation are not asked for
C32_DebugKeeps200SmaAndRsi ==
    CrossoverSignal =>
        /\ ~ call.debug_mode => (FullPattern /\ SufficientSeparation)
        /\ Above200Sma
        /\ RsiOnSignalSide

\* debug_mode has forced a signal on a window without pattern and without
\* separation
C32_ForcedWithoutSeparation ==
    /\ CrossoverSignal
    /\ call.debug_mode
    /\ ~ FullPattern
    /\ ~ SufficientSeparation

\* C33: a KeyboardInterrupt between the venue calls of execute() leaves no
\* half-updated state: never a primary open at the venue without a stored
\* plan of the instrument, never a cooldown entry for an entry that did not
\* open.
C33_InterruptLeavesNoHalfUpdate ==
    (call.fn = "execute" /\ sched.phase = "interrupted")
        => /\ positions[call.pair] # << >> => plans[call.pair] # NoPlan
           /\ time_since_last_trade[call.pair] # NoTime
                  => positions[call.pair] # << >>

\* C34: no processing blocks for ever: unless a venue call fails, every call
\* of monitor_trade returns in the end, and so its monitoring loop, the first
\* of its loops, comes to an end.
C34_MonitoringLoopEnds == <>(mt.pc # "main" \/ mt.event = "error")

\* C35: check_stop_loss says True exactly when the price is at or beyond the
\* stop on the losing side, so a pass of the monitoring loop goes on to the
\* contingency trading only when the price has reached the stop: at or
\* below it for a buy, at or above it for a sell.
C35_ContingencyOnlyAtStop ==
    [][(mt.pc = "main" /\ mt'.pc = "setup")
          => /\ mt.order_type = "buy" => price[MonitoredPair] <= mt.stop_loss
             /\ mt.order_type = "sell" => price[MonitoredPair] >= mt.stop_loss]_vars

\* C36: the state kept per instrument is touched only under that instrument's
\* own key: a call of execute or of check_pending_orders for one instrument
\* leaves the cooldown entry and the stored plan of every other instrument
\* as they were, and check_pending_orders changes no cooldown entry at all.
C36_OtherInstrumentsUnchanged ==
    [][/\ (sched.phase \in {"pending", "execute"} /\ sched' # sched)
            => \A q \in Pairs \ {PairList[sched.i]} :
                  /\ time_since_last_trade'[q] = time_since_last_trade[q]
                  /\ plans'[q] = plans[q]
       /\ (sched.phase = "pending" /\ sched' # sched)
            => time_since_last_trade' = time_since_last_trade]_vars

\* an entry for one instrument while the other has a cooldown running and a
\* plan stored
C36_EntryBesideAnotherPlan ==
    /\ last.op = "execute"
    /\ last.ret = "opened"
    /\ \E q \in Pairs \ {last.pair} :
          /\ plans[q] # NoPlan
          /\ time_since_last_trade[q] \notin {NoTime, 0}

\* C37: with Gemini disabled or without an API key verify_trade_setup
\* approves with confidence 1.0; with an answer that parses it approves only
\* if the answer approves and its confidence is at least min_confidence; and
\* execute() stops at a non-approval only when the verification is required.
C37_VerificationGate ==
    /\ call.outcome.kind = "disabled"
          => call.gemini = [approved |-> TRUE, confidence |-> 100]
    /\ call.outcome.kind = "parsed"
          => (call.gemini.approved
                 => call.outcome.approved /\ call.outcome.confidence >= min_confidence)
    /\ (ExecuteReturned /\ returned.reason = "gemini_rejected")
          => call.required /\ ~ call.gemini.approved

\* an answer that approves below the minimum confidence, verification
\* required: the entry is stopped
C37_LowConfidenceStopsEntry ==
    /\ ExecuteReturned
    /\ call.outcome = [kind |-> "parsed", approved |-> TRUE, confidence |-> 50]
    /\ call.required
    /\ returned.reason = "gemini_rejected"
    /\ positions[call.pair] = << >>

\* C38: initialize_mt5 makes at most three attempts; it returns True only in
\* an attempt in which the terminal initialised, the login with credentials
\* succeeded and the account information was read; and when it returns False
\* its last attempt failed.
C38_TrueOnlyAfterAllThreeSteps ==
    /\ call.attempt <= max_retries
    /\ (returned # NoCall /\ returned.value)
          => call.answers[call.attempt] =
                [terminal |-> "ok", login |-> "ok", account |-> "ok"]
    /\ (returned # NoCall /\ ~ returned.value)
          => call.answers[call.attempt] #
                [terminal |-> "ok", login |-> "ok", account |-> "ok"]
====
